---- MODULE Spec2Model ----
(***************************************************************************)
(* Record store, primary-key index and query parser/executor of the        *)
(* Database-Project engine (DatabaseManager.cpp, query_parser.cpp).        *)
(*                                                                         *)
(* Data files are sequences of bytes, records are maps from column names   *)
(* to tagged field values, the index is the multimap key -> offset kept    *)
(* by the B+ tree.                                                         *)
(***************************************************************************)
EXTENDS Integers, Sequences, FiniteSets, TLC

(***************************************************************************)
(* Bounds of the model.                                                    *)
(***************************************************************************)
\* largest number of records a data file is allowed to reach
MaxRecs == 2
\* primary keys used by the inputs are 1..MaxKey
MaxKey == 2

(***************************************************************************)
(* Field values: std::variant<int, float, std::string, bool>.              *)
(* A string is a sequence of character codes, 0 being NUL.  A float is     *)
(* written as its number of halves (3 is 1.5).                             *)
(***************************************************************************)
IntVal(i) == [tag |-> "int", v |-> i]
FloatVal(h) == [tag |-> "float", v |-> h]
StrVal(s) == [tag |-> "string", v |-> s]
BoolVal(b) == [tag |-> "bool", v |-> b]

\* operator== of FieldValue: equal only when the alternatives agree
FieldEq(lhs, rhs) == lhs.tag = rhs.tag /\ lhs.v = rhs.v

\* largest 32-bit int
IntMax == 2147483647

\* the four bytes of a 32-bit two's complement int, least significant first
IntBytes(i) ==
  LET j == IF i >= 0 THEN i ELSE (i + IntMax) + 1
      sign == IF i >= 0 THEN 0 ELSE 128
  IN << j % 256, (j \div 256) % 256, (j \div 65536) % 256, ((j \div 16777216) % 128) + sign >>

BytesInt(b) ==
  LET j == b[1] + 256 * b[2] + 65536 * b[3] + 16777216 * (b[4] % 128)
  IN IF b[4] >= 128 THEN (j - IntMax) - 1 ELSE j

\* floats of the model, in halves: 0.0, 0.5, 1.0, 1.5
FloatHalves == 0..3

\* IEEE-754 single precision image of a float, least significant byte first
FloatBytes(h) ==
  CASE h = 0 -> << 0, 0, 0, 0 >>
    [] h = 1 -> << 0, 0, 0, 63 >>
    [] h = 2 -> << 0, 0, 128, 63 >>
    [] h = 3 -> << 0, 0, 192, 63 >>

BytesFloat(b) ==
  IF \E h \in FloatHalves : FloatBytes(h) = b
  THEN CHOOSE h \in FloatHalves : FloatBytes(h) = b
  ELSE 0

\* std::string::resize(n, '\0'): truncate or pad with NUL
Resize(s, n) == [i \in 1..n |-> IF i <= Len(s) THEN s[i] ELSE 0]

\* n bytes of file f after position pos (bytes past the end read as 0)
ReadBytes(f, pos, n) ==
  IF pos + n <= Len(f) THEN SubSeq(f, pos + 1, pos + n)
  ELSE [i \in 1..n |-> IF pos + i <= Len(f) THEN f[pos + i] ELSE 0]

(***************************************************************************)
(* Columns and schemas.                                                    *)
(***************************************************************************)
Col(n, t, l, pk) ==
  [name |-> n, type |-> t, length |-> l, is_primary_key |-> pk,
   is_foreign_key |-> FALSE, references_table |-> "", references_column |-> ""]

getFieldSize(column) ==
  CASE column.type = "INT" -> 4
    [] column.type = "FLOAT" -> 4
    [] column.type = "STRING" -> 4 + column.length
    [] column.type = "CHAR" -> column.length
    [] column.type = "BOOL" -> 1
    [] OTHER -> 0

RECURSIVE SumSizes(_)
SumSizes(cols) ==
  IF cols = << >> THEN 0 ELSE getFieldSize(Head(cols)) + SumSizes(Tail(cols))

\* on-disk size of one record of a schema
RecordSize(schema) == SumSizes(schema.columns)

\* the alternative std::get<> asks for when a column of this type is written
TagOf(type) ==
  CASE type = "INT" -> "int"
    [] type = "FLOAT" -> "float"
    [] type = "STRING" -> "string"
    [] type = "CHAR" -> "string"
    [] type = "BOOL" -> "bool"

serializeField_ShortString(value, column) ==
  CASE column.type = "INT" -> IntBytes(value.v)
    [] column.type = "FLOAT" -> FloatBytes(value.v)
    [] column.type = "STRING" ->
         LET val == IF Len(value.v) > column.length
                    THEN Resize(value.v, column.length) ELSE value.v
         IN IntBytes(Len(val)) \o val
    [] column.type = "CHAR" -> Resize(value.v, column.length)
    [] column.type = "BOOL" -> << IF value.v THEN 1 ELSE 0 >>

\* bytes written for one field
serializeField(value, column) ==
  CASE column.type = "INT" -> IntBytes(value.v)
    [] column.type = "FLOAT" -> FloatBytes(value.v)
    [] column.type = "STRING" ->
         LET val == Resize(value.v, column.length)
             len == Len(val)
         IN IntBytes(len) \o val
    [] column.type = "CHAR" -> Resize(value.v, column.length)
    [] column.type = "BOOL" -> << IF value.v THEN 1 ELSE 0 >>

\* field read at position pos of file f: the value and the position after it
deserializeField(f, pos, column) ==
  CASE column.type = "INT" ->
         [value |-> IntVal(BytesInt(ReadBytes(f, pos, 4))), pos |-> pos + 4]
    [] column.type = "FLOAT" ->
         [value |-> FloatVal(BytesFloat(ReadBytes(f, pos, 4))), pos |-> pos + 4]
    [] column.type = "STRING" ->
         LET len == BytesInt(ReadBytes(f, pos, 4))
         IN [value |-> StrVal(ReadBytes(f, pos + 4, len)), pos |-> pos + 4 + len]
    [] column.type = "CHAR" ->
         [value |-> StrVal(ReadBytes(f, pos, column.length)), pos |-> pos + column.length]
    [] column.type = "BOOL" ->
         [value |-> BoolVal(ReadBytes(f, pos, 1)[1] # 0), pos |-> pos + 1]

\* default written for a column missing from the record
DefaultValue(column) ==
  CASE column.type = "INT" -> IntVal(0)
    [] column.type = "FLOAT" -> FloatVal(0)
    [] column.type = "STRING" -> StrVal(<< >>)
    [] column.type = "CHAR" -> StrVal(<< >>)
    [] column.type = "BOOL" -> BoolVal(FALSE)

\* the record with no field
EmptyRecord == [c \in {} |-> IntVal(0)]

RECURSIVE saveFields(_, _)
saveFields(record, cols) ==
  IF cols = << >> THEN << >>
  ELSE LET column == Head(cols)
       IN (IF column.name \in DOMAIN record
           THEN serializeField(record[column.name], column)
           ELSE serializeField(DefaultValue(column), column))
          \o saveFields(record, Tail(cols))

\* bytes of one record, fields in schema order
saveRecord(record, schema) == saveFields(record, schema.columns)

RECURSIVE loadFields(_, _, _)
loadFields(f, pos, cols) ==
  IF cols = << >> THEN [record |-> EmptyRecord, pos |-> pos]
  ELSE LET column == Head(cols)
           d == deserializeField(f, pos, column)
           rest == loadFields(f, d.pos, Tail(cols))
       IN [record |-> (column.name :> d.value) @@ rest.record, pos |-> rest.pos]

\* record read at position pos of file f, and the position after it
loadRecord(f, pos, schema) == loadFields(f, pos, schema.columns)

\* a record gives every column it names a value of the column's alternative
WellTyped(record, schema) ==
  \A i \in 1..Len(schema.columns) :
    LET column == schema.columns[i]
    IN column.name \in DOMAIN record => record[column.name].tag = TagOf(column.type)

(***************************************************************************)
(* The B+ tree index, key -> offset.  Duplicate keys are permitted and a   *)
(* lookup returns the offsets stored under a key in insertion order.       *)
(***************************************************************************)
EmptyTree == << >>

BPlusTree_insert(tree, key, offset) == Append(tree, [key |-> key, offset |-> offset])

RECURSIVE BPlusTree_search(_, _)
BPlusTree_search(tree, key) ==
  IF tree = << >> THEN << >>
  ELSE (IF Head(tree).key = key THEN << Head(tree).offset >> ELSE << >>)
       \o BPlusTree_search(Tail(tree), key)

(***************************************************************************)
(* The database manager: catalog (sequence of table schemas), the files    *)
(* of the data directory (path -> bytes) and the open index of each table. *)
(***************************************************************************)
DataPath(table_name) == << table_name, "dat" >>
TempPath(table_name) == << table_name, "dat.tmp" >>

\* position of the table in the catalog, 0 when absent
FindTable(cat, table_name) ==
  IF \E i \in 1..Len(cat) : cat[i].name = table_name
  THEN CHOOSE i \in 1..Len(cat) :
         cat[i].name = table_name /\ \A j \in 1..(i - 1) : cat[j].name # table_name
  ELSE 0

\* position of the first primary-key column of a schema, 0 when there is none
PrimaryKeyIndex(schema) ==
  IF \E i \in 1..Len(schema.columns) : schema.columns[i].is_primary_key
  THEN CHOOSE i \in 1..Len(schema.columns) :
         schema.columns[i].is_primary_key
         /\ \A j \in 1..(i - 1) : ~schema.columns[j].is_primary_key
  ELSE 0

\* name of the primary-key column, "" when there is none
PrimaryKeyColumn(schema) ==
  IF PrimaryKeyIndex(schema) = 0 THEN "" ELSE schema.columns[PrimaryKeyIndex(schema)].name

WriteFile(fs, path, bytes) == (path :> bytes) @@ fs
RemoveFile_Keep(fs, path) == fs

\* std::filesystem::remove
RemoveFile(fs, path) == [q \in (DOMAIN fs) \ {path} |-> fs[q]]
\* std::filesystem::rename: the target is replaced, the source disappears
RenameFile(fs, from, to) ==
  [q \in ((DOMAIN fs) \ {from}) \cup {to} |-> IF q = to THEN fs[from] ELSE fs[q]]

\* outcome of a call: the manager afterwards, the value returned, and the
\* fault that ended the call when it did not return
\* body(v), the value v computed once
With(v, body(_)) == CHOOSE r \in { body(x) : x \in {v} } : TRUE

Outcome(db, ok, fault) == [db |-> db, ok |-> ok, fault |-> fault]

createIndex(db, schema) ==
  IF PrimaryKeyIndex(schema) = 0 THEN db
  ELSE [db EXCEPT !.indexes =
          IF schema.name \in DOMAIN db.indexes THEN db.indexes
          ELSE (schema.name :> EmptyTree) @@ db.indexes]

\* the fields of a record written before std::get meets a value of another
\* alternative than the column's
RECURSIVE saveFieldsUntilThrow(_, _)
saveFieldsUntilThrow(record, cols) ==
  IF cols = << >> THEN << >>
  ELSE LET column == Head(cols)
       IN IF column.name \in DOMAIN record /\ record[column.name].tag # TagOf(column.type)
          THEN << >>
          ELSE (IF column.name \in DOMAIN record
                THEN serializeField(record[column.name], column)
                ELSE serializeField(DefaultValue(column), column))
               \o saveFieldsUntilThrow(record, Tail(cols))

\* position tellp() reports on the stream just opened with ios::app: the end
\* of the file (libstdc++; the C library leaves the initial position of an
\* append stream to the implementation)
AppendBytes_Truncate(old, bytes) == bytes

\* a write to a stream opened with ios::app lands at the end of the file
AppendBytes(old, bytes) == old \o bytes

insertRecord_WriteFirst(db, table_name, record) ==
  LET schema == db.catalog[FindTable(db.catalog, table_name)]
      path == DataPath(table_name)
      old == IF path \in DOMAIN db.files THEN db.files[path] ELSE << >>
  IN Outcome([db EXCEPT !.files = WriteFile(@, path, old \o saveRecord(record, schema))],
             PrimaryKeyColumn(schema) \in DOMAIN record, "none")

insertRecord(db, table_name, record) ==
  LET ti == FindTable(db.catalog, table_name)
  IN IF ti = 0 THEN Outcome(db, FALSE, "none")
     ELSE
       LET schema == db.catalog[ti]
           pk == PrimaryKeyColumn(schema)
       IN IF pk # "" /\ pk \notin DOMAIN record THEN Outcome(db, FALSE, "none")
          ELSE IF pk # "" /\ schema.columns[PrimaryKeyIndex(schema)].type # "INT"
          THEN Outcome(db, FALSE, "none")
          ELSE IF pk # "" /\ record[pk].tag # "int"
          THEN Outcome(db, FALSE, "bad_variant_access")
          ELSE
            LET primary_key_value == IF pk = "" THEN 0 ELSE record[pk].v
                db1 == IF table_name \notin DOMAIN db.indexes
                       THEN createIndex(db, schema) ELSE db
                path == DataPath(table_name)
                old == IF path \in DOMAIN db1.files THEN db1.files[path] ELSE << >>
                offset == Len(old)
             IN IF ~WellTyped(record, schema)
                THEN Outcome([db1 EXCEPT !.files =
                                WriteFile(db1.files, path,
                                          old \o saveFieldsUntilThrow(record, schema.columns))],
                             FALSE, "bad_variant_access")
                ELSE
                  LET db2 == [db1 EXCEPT !.files =
                                WriteFile(db1.files, path,
                                          AppendBytes(old, saveRecord(record, schema)))]
                  IN IF table_name \notin DOMAIN db2.indexes
                     THEN Outcome(db2, FALSE, "null_index")
                     ELSE Outcome([db2 EXCEPT !.indexes[table_name] =
                                     BPlusTree_insert(@, primary_key_value, offset)],
                                  TRUE, "none")

\* the records of a file from position pos on, each with its offset
RECURSIVE ScanFrom(_, _, _)
ScanFrom(f, pos, schema) ==
  IF pos < Len(f)
  THEN LET l == loadRecord(f, pos, schema)
       IN << [offset |-> pos, record |-> l.record] >> \o ScanFrom(f, l.pos, schema)
  ELSE << >>

RecordsOf(scan) == [i \in 1..Len(scan) |-> scan[i].record]

getAllRecords(db, table_name) ==
  LET ti == FindTable(db.catalog, table_name)
  IN IF ti = 0 THEN << >>
     ELSE IF DataPath(table_name) \notin DOMAIN db.files THEN << >>
     ELSE RecordsOf(ScanFrom(db.files[DataPath(table_name)], 0, db.catalog[ti]))

\* record[key_column] == key_value, false when the record has no such field
Matches(record, key_column, key_value) ==
  key_column \in DOMAIN record /\ FieldEq(record[key_column], key_value)

RECURSIVE Concat(_)
Concat(seqs) == IF seqs = << >> THEN << >> ELSE Head(seqs) \o Concat(Tail(seqs))

\* offset_map[k] of std::map: 0 for a key the map does not hold
MapGet(m, k) == IF k \in DOMAIN m THEN m[k] ELSE 0

\* record[col] = val for every entry of the new values
ApplySet(record, new_values) ==
  [c \in (DOMAIN record) \cup (DOMAIN new_values) |->
     IF c \in DOMAIN new_values THEN new_values[c] ELSE record[c]]

updateRewrite_Reverse(scan, key_column, key_value, new_values) ==
  [i \in 1..Len(scan) |->
     IF Matches(scan[Len(scan) + 1 - i].record, key_column, key_value)
     THEN ApplySet(scan[Len(scan) + 1 - i].record, new_values)
     ELSE scan[Len(scan) + 1 - i].record]

\* the records the update loop hands to saveRecord, in file order
updateRewrite(scan, key_column, key_value, new_values) ==
  [i \in 1..Len(scan) |->
     IF Matches(scan[i].record, key_column, key_value)
     THEN ApplySet(scan[i].record, new_values)
     ELSE scan[i].record]

\* tellp() of the temp file before the i-th record is written, saved being
\* the bytes of the records in the order they are written
RECURSIVE NewOffset(_, _)
NewOffset(saved, i) == IF i <= 1 THEN 0 ELSE NewOffset(saved, i - 1) + Len(saved[i - 1])

\* the new index entries the update rebuild can produce for the records
\* from position i on: index->search(key)[0] of an empty result is an
\* out-of-range read, whose value is arbitrary
RECURSIVE updateRebuild(_, _, _, _, _)
updateRebuild(all_records, i, pk, index, offset_map) ==
  IF i > Len(all_records) THEN { EmptyTree }
  ELSE LET key == all_records[i][pk].v
           found == BPlusTree_search(index, key)
           offsets == IF found = << >>
                      THEN { offset_map[o] : o \in DOMAIN offset_map } \cup { 0 }
                      ELSE { MapGet(offset_map, found[1]) }
       IN { << [key |-> key, offset |-> o] >> \o rest :
              o \in offsets,
              rest \in updateRebuild(all_records, i + 1, pk, index, offset_map) }

\* The outcomes of updateRecord. When the rebuild looks up a key the old index
\* does not hold, the read of search(key)[0] is out of range: the call either
\* ends the process ("vector_out_of_range") or goes on with an arbitrary
\* offset for that key and returns true ("undefined_value").
updateRecord(db, table_name, key_column, key_value, new_values) ==
  LET ti == FindTable(db.catalog, table_name)
  IN IF ti = 0 THEN { Outcome(db, FALSE, "none") }
     ELSE IF DataPath(table_name) \notin DOMAIN db.files THEN { Outcome(db, FALSE, "none") }
     ELSE
       LET schema == db.catalog[ti]
           primary_key_column == PrimaryKeyColumn(schema)
           scan == ScanFrom(db.files[DataPath(table_name)], 0, schema)
           written == updateRewrite(scan, key_column, key_value, new_values)
           record_found == \E i \in 1..Len(scan) : Matches(scan[i].record, key_column, key_value)
           primary_key_changed ==
             record_found /\ primary_key_column # "" /\ primary_key_column \in DOMAIN new_values
           bad == { i \in 1..Len(scan) : ~WellTyped(written[i], schema) }
           saved == [j \in 1..Len(written) |-> saveRecord(written[j], schema)]
           offset_map == [o \in { scan[i].offset : i \in 1..Len(scan) } |->
                            LET i == CHOOSE j \in 1..Len(scan) : scan[j].offset = o
                            IN NewOffset(saved, i)]
       IN IF bad # {}
          THEN LET b == CHOOSE i \in bad : \A j \in bad : i <= j
                   partial == Concat([j \in 1..(b - 1) |-> saveRecord(written[j], schema)])
                              \o (IF primary_key_changed
                                     /\ new_values[primary_key_column].tag # "int"
                                  THEN << >>
                                  ELSE saveFieldsUntilThrow(written[b], schema.columns))
               IN { Outcome([db EXCEPT !.files = WriteFile(db.files, TempPath(table_name), partial)],
                            FALSE, "bad_variant_access") }
          ELSE
            LET temp == Concat(saved)
                files1 == WriteFile(db.files, TempPath(table_name), temp)
            IN IF ~record_found
               THEN { Outcome([db EXCEPT !.files = RemoveFile(files1, TempPath(table_name))],
                              FALSE, "none") }
               ELSE
                 LET db1 == [db EXCEPT !.files =
                               RenameFile(files1, TempPath(table_name), DataPath(table_name))]
                 IN IF primary_key_changed /\ table_name \in DOMAIN db.indexes
                    THEN LET index == db.indexes[table_name]
                             all_records == getAllRecords(db1, table_name)
                             crash == \E i \in 1..Len(all_records) :
                                        BPlusTree_search(index, all_records[i][primary_key_column].v) = << >>
                         IN { Outcome([db1 EXCEPT !.indexes[table_name] = new_index], TRUE,
                                      IF crash THEN "undefined_value" ELSE "none") :
                                new_index \in updateRebuild(all_records, 1, primary_key_column,
                                                            index, offset_map) }
                            \cup (IF crash THEN { Outcome(db1, FALSE, "vector_out_of_range") }
                                  ELSE { })
                    ELSE { Outcome(db1, TRUE, "none") }

deleteRewrite_StopAtMatch(scan, key_column, key_value) ==
  SelectSeq(scan, LAMBDA e :
    \A j \in 1..Len(scan) :
      Matches(scan[j].record, key_column, key_value) => e.offset < scan[j].offset)

\* the entries of the scan the delete loop writes to the temp file
deleteRewrite(scan, key_column, key_value) ==
  SelectSeq(scan, LAMBDA e : ~Matches(e.record, key_column, key_value))

\* the index rebuilt after a delete: a surviving record is entered under the
\* new position of the first offset the old index holds for its key
RECURSIVE deleteRebuild(_, _, _, _, _)
deleteRebuild(all_records, i, pk, index, offset_map) ==
  IF i > Len(all_records) THEN EmptyTree
  ELSE LET key == all_records[i][pk].v
           offsets == BPlusTree_search(index, key)
       IN (IF offsets # << >> /\ offsets[1] \in DOMAIN offset_map
           THEN << [key |-> key, offset |-> offset_map[offsets[1]]] >>
           ELSE << >>)
          \o deleteRebuild(all_records, i + 1, pk, index, offset_map)

deleteRecord(db, table_name, key_column, key_value) ==
  LET ti == FindTable(db.catalog, table_name)
  IN IF ti = 0 THEN Outcome(db, FALSE, "none")
     ELSE IF DataPath(table_name) \notin DOMAIN db.files THEN Outcome(db, FALSE, "none")
     ELSE
       LET schema == db.catalog[ti]
           primary_key_column == PrimaryKeyColumn(schema)
           scan == ScanFrom(db.files[DataPath(table_name)], 0, schema)
           kept == deleteRewrite(scan, key_column, key_value)
           written == RecordsOf(kept)
           found_record == \E i \in 1..Len(scan) : Matches(scan[i].record, key_column, key_value)
           deleted_keys == found_record /\ primary_key_column # ""
           saved == [j \in 1..Len(written) |-> saveRecord(written[j], schema)]
           offset_map == [o \in { kept[i].offset : i \in 1..Len(kept) } |->
                            LET i == CHOOSE j \in 1..Len(kept) : kept[j].offset = o
                            IN NewOffset(saved, i)]
           temp == Concat(saved)
           files1 == WriteFile(db.files, TempPath(table_name), temp)
       IN IF ~found_record
          THEN Outcome([db EXCEPT !.files = RemoveFile(files1, TempPath(table_name))],
                       FALSE, "none")
          ELSE
            LET db1 == [db EXCEPT !.files =
                          RenameFile(files1, TempPath(table_name), DataPath(table_name))]
            IN IF deleted_keys /\ table_name \in DOMAIN db.indexes
               THEN Outcome([db1 EXCEPT !.indexes[table_name] =
                               deleteRebuild(getAllRecords(db1, table_name), 1,
                                             primary_key_column, db.indexes[table_name],
                                             offset_map)],
                            TRUE, "none")
               ELSE Outcome(db1, TRUE, "none")

(***************************************************************************)
(* Condition evaluation and searchRecordsAdvanced.                         *)
(***************************************************************************)
\* s < t for std::string
RECURSIVE StrLess(_, _)
StrLess(s, t) ==
  IF t = << >> THEN FALSE
  ELSE IF s = << >> THEN TRUE
  ELSE IF Head(s) # Head(t) THEN Head(s) < Head(t)
  ELSE StrLess(Tail(s), Tail(t))

\* left < right for the alternatives that have an order
ValueLess(left, right) ==
  IF left.tag = "string" THEN StrLess(left.v, right.v) ELSE left.v < right.v

compareValues(left, right, op) ==
  IF left.tag # right.tag THEN FALSE
  ELSE CASE op = "=" -> FieldEq(left, right)
         [] op = "!=" -> ~FieldEq(left, right)
         [] op = ">" -> left.tag \in {"int", "float", "string"} /\ ValueLess(right, left)
         [] op = "<" -> left.tag \in {"int", "float", "string"} /\ ValueLess(left, right)
         [] op = ">=" -> left.tag \in {"int", "float", "string"} /\ ~ValueLess(left, right)
         [] op = "<=" -> left.tag \in {"int", "float", "string"} /\ ~ValueLess(right, left)
         [] OTHER -> FALSE

Cond(c, v, o) == [column |-> c, value |-> v, op |-> o]

\* the record satisfies the conditions from position first on
MatchesAll(record, conditions, first) ==
  \A i \in first..Len(conditions) :
    /\ conditions[i].column \in DOMAIN record
    /\ compareValues(record[conditions[i].column], conditions[i].value, conditions[i].op)

\* the index fast path: seek to every offset the index holds for the key of
\* the first condition, check the remaining conditions
IndexSearch(db, table_name, schema, conditions) ==
  LET f == db.files[DataPath(table_name)]
      offsets == BPlusTree_search(db.indexes[table_name], conditions[1].value.v)
      loaded == [i \in 1..Len(offsets) |-> loadRecord(f, offsets[i], schema).record]
  IN SelectSeq(loaded, LAMBDA r : MatchesAll(r, conditions, 2))

\* the full table scan: every record, every condition
ScanSearch(db, table_name, schema, conditions) ==
  SelectSeq(RecordsOf(ScanFrom(db.files[DataPath(table_name)], 0, schema)),
            LAMBDA r : MatchesAll(r, conditions, 1))

UseIndex(db, table_name, schema, conditions) ==
  /\ conditions # << >>
  /\ conditions[1].column = PrimaryKeyColumn(schema)
  /\ conditions[1].op = "="
  /\ conditions[1].value.tag = "int"
  /\ table_name \in DOMAIN db.indexes

searchRecordsAdvanced(db, table_name, conditions) ==
  LET ti == FindTable(db.catalog, table_name)
  IN IF ti = 0 THEN << >>
     ELSE IF DataPath(table_name) \notin DOMAIN db.files THEN << >>
     ELSE IF UseIndex(db, table_name, db.catalog[ti], conditions)
     THEN IndexSearch(db, table_name, db.catalog[ti], conditions)
     ELSE ScanSearch(db, table_name, db.catalog[ti], conditions)

(***************************************************************************)
(* Tokens.  A statement is the vector of tokens tokenize() returns for it, *)
(* a submission is the vector of its statements (QueryParser::commands).   *)
(* Positions are counted from 0 as in the source.                          *)
(***************************************************************************)
At(tokens, k) == tokens[k + 1]

\* std::find(tokens.begin(), tokens.end(), w) - tokens.begin()
Find(tokens, w) ==
  IF \E k \in 0..(Len(tokens) - 1) : At(tokens, k) = w
  THEN CHOOSE k \in 0..(Len(tokens) - 1) :
         At(tokens, k) = w /\ \A j \in 0..(k - 1) : At(tokens, j) # w
  ELSE Len(tokens)

\* the words of the statements that hold a lower-case letter, in upper case
UpperOf ==
  ("a" :> "A") @@ ("b" :> "B") @@ ("t" :> "T") @@ ("zz" :> "ZZ") @@ ("db" :> "DB")
  @@ ("id" :> "ID") @@ ("v" :> "V") @@ ("a.id" :> "A.ID") @@ ("b.id" :> "B.ID")
  @@ ("int" :> "INT") @@ ("Int" :> "INT") @@ ("and" :> "AND") @@ ("or" :> "OR")
  @@ ("not" :> "NOT") @@ ("true" :> "TRUE") @@ ("false" :> "FALSE")
  @@ ("select" :> "SELECT") @@ ("from" :> "FROM") @@ ("c" :> "C")
  @@ ("n" :> "N") @@ ("m" :> "M") @@ ("maybe" :> "MAYBE") @@ ("True" :> "TRUE")
  @@ ("id=5" :> "ID=5") @@ ("'ab'" :> "'AB'")

\* std::transform(..., ::toupper)
ToUpper(token) == IF token \in DOMAIN UpperOf THEN UpperOf[token] ELSE token

\* the characters of the tokens that are read as values
Chars ==
  ("a" :> << 97 >>) @@ ("b" :> << 98 >>) @@ ("t" :> << 116 >>) @@ ("c" :> << 99 >>)
  @@ ("db" :> << 100, 98 >>)
  @@ ("1" :> << 49 >>) @@ ("2" :> << 50 >>) @@ ("3" :> << 51 >>) @@ ("5" :> << 53 >>)
  @@ ("1.5" :> << 49, 46, 53 >>) @@ ("'ab'" :> << 39, 97, 98, 39 >>)
  @@ ("true" :> << 116, 114, 117, 101 >>) @@ ("TRUE" :> << 84, 82, 85, 69 >>)
  @@ ("false" :> << 102, 97, 108, 115, 101 >>) @@ ("FALSE" :> << 70, 65, 76, 83, 69 >>)
  @@ ("True" :> << 84, 114, 117, 101 >>) @@ ("maybe" :> << 109, 97, 121, 98, 101 >>)
  @@ ("n" :> << 110 >>) @@ ("m" :> << 109 >>)

\* the digits at the head of s
RECURSIVE DigitPrefix(_)
DigitPrefix(s) ==
  IF s # << >> /\ Head(s) \in 48..57 THEN << Head(s) >> \o DigitPrefix(Tail(s)) ELSE << >>

RECURSIVE DigitsValue(_)
DigitsValue(d) ==
  IF d = << >> THEN 0 ELSE 10 * DigitsValue(SubSeq(d, 1, Len(d) - 1)) + (d[Len(d)] - 48)

Conv(ok, v) == [ok |-> ok, v |-> v]

\* std::stoi: the integer at the head of the text, the rest ignored; throws
\* (ok = FALSE) when the text does not start with a number or the number
\* does not fit an int
stoi(s) ==
  LET neg == s # << >> /\ Head(s) = 45
      body == IF s # << >> /\ Head(s) \in {43, 45} THEN Tail(s) ELSE s
      d == DigitPrefix(body)
      high == DigitsValue(SubSeq(d, 1, 9))
      fits == \/ Len(d) <= 9
              \/ /\ Len(d) = 10
                 /\ \/ high < IntMax \div 10
                    \/ high = IntMax \div 10 /\ d[10] - 48 <= IntMax % 10
  IN IF d = << >> \/ ~fits THEN Conv(FALSE, 0)
     ELSE Conv(TRUE, IF neg THEN 0 - DigitsValue(d) ELSE DigitsValue(d))

\* std::stof, in halves: digits, then an optional fraction of which the
\* first digit decides the half
stof(s) ==
  LET body == IF s # << >> /\ Head(s) \in {43, 45} THEN Tail(s) ELSE s
      d == DigitPrefix(body)
      rest == SubSeq(body, Len(d) + 1, Len(body))
      frac == IF rest # << >> /\ Head(rest) = 46 THEN DigitPrefix(Tail(rest)) ELSE << >>
  IN IF d = << >> /\ frac = << >> THEN Conv(FALSE, 0)
     ELSE Conv(TRUE, 2 * DigitsValue(d) + (IF frac # << >> /\ Head(frac) >= 53 THEN 1 ELSE 0))

\* str.substr(1, str.length() - 2) when the text starts and ends with a quote
StripQuotes(s) ==
  IF s[1] = 39 /\ s[Len(s)] = 39
  THEN (IF Len(s) >= 2 THEN SubSeq(s, 2, Len(s) - 1) ELSE << >>)
  ELSE s

parseValue(value_str) ==
  LET s == Chars[value_str]
  IN IF stoi(s).ok THEN IntVal(stoi(s).v)
     ELSE IF stof(s).ok THEN FloatVal(stof(s).v)
     ELSE IF value_str \in {"true", "TRUE"} THEN BoolVal(TRUE)
     ELSE IF value_str \in {"false", "FALSE"} THEN BoolVal(FALSE)
     ELSE StrVal(StripQuotes(s))

\* qualified column names table.column, and the column of each
BaseOf == ("a.id" :> "id") @@ ("b.id" :> "id") @@ ("a.v" :> "v")

\* col.find('.') != std::string::npos
HasDot(col) == col \in DOMAIN BaseOf

\* QueryParser::tokenize: the text, a sequence of characters, is cleaned
\* (a tab or line break becomes a space, a space before a space is erased,
\* the spaces at both ends are trimmed) and then cut at the spaces and at
\* ( ) , ; outside quotes; every other character, = included, extends the
\* current token
tokenize(query) ==
  LET RECURSIVE clean(_, _)
      clean(s, i) ==
        IF ~(i < Len(s)) THEN s
        ELSE IF At(s, i) \in {"\r", "\n", "\t"} THEN clean([s EXCEPT ![i + 1] = " "], i + 1)
        ELSE IF At(s, i) = " " /\ i + 1 < Len(s) /\ At(s, i + 1) = " "
        THEN clean(SubSeq(s, 1, i) \o SubSeq(s, i + 2, Len(s)), i)
        ELSE clean(s, i + 1)
      RECURSIVE trimFront(_)
      trimFront(s) == IF s # << >> /\ Head(s) = " " THEN trimFront(Tail(s)) ELSE s
      RECURSIVE trimBack(_)
      trimBack(s) ==
        IF s # << >> /\ s[Len(s)] = " " THEN trimBack(SubSeq(s, 1, Len(s) - 1)) ELSE s
      flush(st) ==
        IF st.current_token # ""
        THEN [st EXCEPT !.tokens = Append(@, st.current_token), !.current_token = ""]
        ELSE st
      RECURSIVE scan(_, _)
      scan(s, st) ==
        IF s = << >> THEN flush(st).tokens
        ELSE LET c == Head(s)
             IN IF c = "'"
                THEN scan(Tail(s), [st EXCEPT !.in_quotes = ~@, !.current_token = @ \o c])
                ELSE IF ~st.in_quotes /\ c \in {"(", ")", ",", ";"}
                THEN scan(Tail(s), [flush(st) EXCEPT !.tokens = Append(@, c)])
                ELSE IF ~st.in_quotes /\ c \in {" ", "\t", "\n", "\r"}
                THEN scan(Tail(s), flush(st))
                ELSE scan(Tail(s), [st EXCEPT !.current_token = @ \o c])
  IN scan(trimBack(trimFront(clean(query, 0))),
          [tokens |-> << >>, current_token |-> "", in_quotes |-> FALSE])

(***************************************************************************)
(* The query descriptor QueryParser::current_query and the parse methods.  *)
(***************************************************************************)
\* join_condition before any JOIN was parsed: a Condition of empty strings
NoJoin == [column |-> "", op |-> "", value |-> ""]

EmptyQuery ==
  [type |-> "NONE", database_name |-> "", table_name |-> "",
   columns |-> << >>, primary_key |-> "", foreign_keys |-> EmptyRecord,
   values |-> EmptyRecord, select_columns |-> << >>,
   conditions |-> << >>, condition_operators |-> << >>,
   join_table_name |-> "", join_condition |-> NoJoin,
   error_message |-> "", results |-> << >>, records_found |-> 0]

Parsed(cq, ok) == [cq |-> cq, ok |-> ok]

Fail(cq, message) == Parsed([cq EXCEPT !.error_message = message], FALSE)

\* map[k] = v
Put(map, k, v) == [c \in (DOMAIN map) \cup {k} |-> IF c = k THEN v ELSE map[c]]

getTableSchema(db, table_name) ==
  LET ti == FindTable(db.catalog, table_name)
  IN IF ti = 0 THEN [name |-> "", columns |-> << >>] ELSE db.catalog[ti]

parseCreateDatabase(cq, tokens) ==
  IF Len(tokens) # 3 THEN Fail(cq, "Invalid CREATE DATABASE syntax")
  ELSE Parsed([cq EXCEPT !.database_name = At(tokens, 2)], TRUE)

parseDropDatabase(cq, tokens) ==
  IF Len(tokens) # 3 THEN Fail(cq, "Invalid DROP DATABASE syntax")
  ELSE Parsed([cq EXCEPT !.database_name = At(tokens, 2)], TRUE)

parseUseDatabase(cq, tokens) ==
  IF Len(tokens) # 2 THEN Fail(cq, "Invalid USE DATABASE syntax")
  ELSE Parsed([cq EXCEPT !.database_name = At(tokens, 1)], TRUE)

parseDropTable(cq, tokens) ==
  IF Len(tokens) # 3 THEN Fail(cq, "Invalid DROP TABLE syntax")
  ELSE Parsed([cq EXCEPT !.table_name = At(tokens, 2)], TRUE)

\* the position after an optional comma at position i
SkipComma(tokens, i) == IF i < Len(tokens) /\ At(tokens, i) = "," THEN i + 1 ELSE i

\* the locals of parseCreateTable
CreateTableLocals ==
  [current_col_name |-> "", current_col_type |-> "", current_col_length |-> 0,
   is_primary_key |-> FALSE, columns |-> << >>, primary_key |-> "",
   foreign_keys |-> EmptyRecord, error |-> ""]

\* the loop of parseCreateTable over the tokens between the parentheses
RECURSIVE createTableLoop(_, _, _)
createTableLoop(tokens, position, locals) ==
  With(<< position, locals >>, LAMBDA now :
  LET i == now[1]
      st == now[2]
      size == Len(tokens)
  IN IF ~(i < size /\ At(tokens, i) # ")") THEN st
     ELSE
       LET token == At(tokens, i)
           token_upper == ToUpper(token)
       IN IF token = "" THEN createTableLoop(tokens, i + 1, st)
          ELSE IF token_upper = "PRIMARY" /\ i + 3 < size
                  /\ At(tokens, i + 1) = "KEY" /\ At(tokens, i + 2) = "("
          THEN IF At(tokens, i + 3) = ")"
               THEN [st EXCEPT !.error = "PRIMARY KEY column name missing"]
               ELSE createTableLoop(tokens, SkipComma(tokens, i + 5),
                                    [st EXCEPT !.primary_key = At(tokens, i + 3)])
          ELSE IF token_upper = "FOREIGN" /\ i + 6 < size
                  /\ At(tokens, i + 1) = "KEY" /\ At(tokens, i + 2) = "("
                  /\ At(tokens, i + 4) = ")" /\ At(tokens, i + 5) = "REFERENCES"
          THEN LET local_column == At(tokens, i + 3)
                   ref_table == At(tokens, i + 6)
                   with_column == i + 9 < size /\ At(tokens, i + 7) = "("
                                  /\ At(tokens, i + 9) = ")"
                   ref_column == IF with_column THEN At(tokens, i + 8) ELSE local_column
                   j == IF with_column THEN i + 10 ELSE i + 7
               IN createTableLoop(tokens, SkipComma(tokens, j),
                    [st EXCEPT !.foreign_keys =
                       Put(@, local_column, << ref_table, ref_column >>)])
          ELSE IF st.current_col_name = ""
          THEN createTableLoop(tokens, i + 1, [st EXCEPT !.current_col_name = token])
          ELSE IF st.current_col_type = ""
          THEN LET sized == token_upper \in {"STRING", "CHAR"} /\ i + 3 < size
                            /\ At(tokens, i + 1) = "(" /\ At(tokens, i + 3) = ")"
                   length == IF sized THEN stoi(Chars[At(tokens, i + 2)])
                             ELSE Conv(TRUE, st.current_col_length)
                   i1 == IF sized THEN i + 4 ELSE i + 1
                   pk_here == i1 < size /\ ToUpper(At(tokens, i1)) = "PRIMARY"
                              /\ i1 + 1 < size /\ At(tokens, i1 + 1) = "KEY"
                   i2 == IF pk_here THEN i1 + 2 ELSE i1
                   ends == i2 < size /\ At(tokens, i2) \in {",", ")"}
                   st1 == [st EXCEPT !.current_col_type = token_upper,
                                     !.current_col_length = length.v,
                                     !.is_primary_key = @ \/ pk_here]
               IN IF ~length.ok THEN [st EXCEPT !.error = "Invalid length"]
                  ELSE IF ends
                  THEN createTableLoop(tokens, SkipComma(tokens, i2),
                         [st1 EXCEPT
                            !.columns = Append(@, << st.current_col_name, token_upper, length.v >>),
                            !.primary_key = IF st1.is_primary_key THEN st.current_col_name ELSE @,
                            !.is_primary_key = FALSE,
                            !.current_col_name = "", !.current_col_type = "",
                            !.current_col_length = 0])
                  ELSE createTableLoop(tokens, i2, st1)
          ELSE createTableLoop(tokens, i + 1, st))

\* position of the first "(" from position i on, Len(tokens) when none
RECURSIVE OpenParen(_, _)
OpenParen(tokens, i) ==
  IF i < Len(tokens) /\ At(tokens, i) # "(" THEN OpenParen(tokens, i + 1) ELSE i

parseCreateTable(cq, tokens) ==
  IF Len(tokens) < 4 THEN Fail(cq, "Invalid CREATE TABLE syntax")
  ELSE
    LET cq1 == [cq EXCEPT !.type = "CREATE_TABLE", !.table_name = At(tokens, 2)]
        open == OpenParen(tokens, 3)
        \* the last column when the loop left it unfinished
        finished(st) ==
          IF st.current_col_name # "" /\ st.current_col_type # ""
          THEN [st EXCEPT !.columns = Append(@, << st.current_col_name, st.current_col_type,
                                                   st.current_col_length >>),
                          !.primary_key = IF st.is_primary_key THEN st.current_col_name
                                          ELSE @]
          ELSE st
    IN IF open >= Len(tokens) THEN Fail(cq1, "Expected '(' after table name")
       ELSE With(createTableLoop(tokens, open + 1, CreateTableLocals), LAMBDA st :
              IF st.error # "" THEN Fail(cq1, st.error)
              ELSE With(finished(st), LAMBDA end :
                     IF end.columns = << >> THEN Fail(cq1, "No columns defined for table")
                     ELSE IF /\ end.primary_key # ""
                             /\ ~\E k \in 1..Len(end.columns) :
                                   end.columns[k][1] = end.primary_key
                     THEN Fail(cq1, "Primary key column not found in column definitions")
                     ELSE Parsed([cq1 EXCEPT !.columns = end.columns,
                                             !.primary_key = end.primary_key,
                                             !.foreign_keys = end.foreign_keys], TRUE)))

\* the value tokens of INSERT from position i on: the tokens between commas
\* joined by spaces.  st: [i, value_tokens, in_quotes, current_token]
RECURSIVE collectValues(_, _)
collectValues(tokens, st) ==
  LET i == st.i
  IN IF ~(i < Len(tokens) /\ At(tokens, i) # ")") THEN st
     ELSE
       LET token == At(tokens, i)
       IN IF token = "," /\ ~st.in_quotes
          THEN collectValues(tokens,
                 [st EXCEPT !.i = i + 1,
                            !.value_tokens = IF st.current_token # ""
                                             THEN Append(@, st.current_token) ELSE @,
                            !.current_token = ""])
          ELSE IF token = "'"
          THEN collectValues(tokens,
                 [st EXCEPT !.i = i + 1, !.in_quotes = ~@, !.current_token = @ \o token])
          ELSE collectValues(tokens,
                 [st EXCEPT !.i = i + 1,
                            !.current_token =
                               IF ~st.in_quotes /\ i + 1 < Len(tokens)
                                  /\ At(tokens, i + 1) \notin {",", ")"}
                               THEN (@ \o token) \o " " ELSE @ \o token])

\* the value a token of INSERT takes for a column, ok = FALSE when the
\* conversion throws
insertValue(token, column) ==
  LET s == Chars[token]
  IN CASE column.type = "INT" -> Conv(stoi(s).ok, IntVal(stoi(s).v))
       [] column.type = "FLOAT" -> Conv(stof(s).ok, FloatVal(stof(s).v))
       [] column.type \in {"STRING", "CHAR"} -> Conv(TRUE, StrVal(StripQuotes(s)))
       [] column.type = "BOOL" -> Conv(TRUE, BoolVal(token \in {"true", "TRUE", "1"}))

\* the loop of parseInsert over the value tokens.  st: [values, value_index, error]
RECURSIVE bindValues(_, _, _)
bindValues(value_tokens, schema, st) ==
  IF value_tokens = << >> \/ st.error # "" THEN st
  ELSE IF st.value_index >= Len(schema.columns)
  THEN [st EXCEPT !.error = "Too many values"]
  ELSE LET column == schema.columns[st.value_index + 1]
           val == insertValue(Head(value_tokens), column)
       IN IF ~val.ok THEN [st EXCEPT !.error = "Invalid value"]
          ELSE bindValues(Tail(value_tokens), schema,
                 [st EXCEPT !.values = Put(@, column.name, val.v),
                            !.value_index = @ + 1])

parseInsert(cq, db, tokens) ==
  IF Len(tokens) < 6 THEN Fail(cq, "Invalid INSERT syntax")
  ELSE
    LET cq1 == [cq EXCEPT !.type = "INSERT", !.table_name = At(tokens, 2)]
        schema == getTableSchema(db, cq1.table_name)
    IN IF schema.name = "" THEN Fail(cq1, "Table does not exist")
       ELSE IF At(tokens, 4) # "(" THEN Fail(cq1, "Expected '(' after VALUES")
       ELSE
         LET c == collectValues(tokens, [i |-> 5, value_tokens |-> << >>,
                                         in_quotes |-> FALSE, current_token |-> ""])
             value_tokens == IF c.current_token # "" THEN Append(c.value_tokens, c.current_token)
                             ELSE c.value_tokens
             b == bindValues(value_tokens, schema,
                             [values |-> EmptyRecord, value_index |-> 0, error |-> ""])
         IN IF c.i >= Len(tokens) \/ At(tokens, c.i) # ")"
            THEN Fail(cq1, "Expected ')' after values")
            ELSE IF b.error # "" THEN Fail(cq1, b.error)
            ELSE IF b.value_index # Len(schema.columns)
            THEN Fail(cq1, "Incorrect number of values")
            ELSE Parsed([cq1 EXCEPT !.values = b.values], TRUE)

\* the loop over the tokens after WHERE
RECURSIVE whereLoop(_, _, _)
whereLoop(cq, tokens, i) ==
  IF ~(i < Len(tokens)) THEN Parsed(cq, TRUE)
  ELSE LET token == ToUpper(At(tokens, i))
       IN IF token \in {"AND", "OR", "NOT"}
          THEN whereLoop([cq EXCEPT !.condition_operators = Append(@, token)], tokens, i + 1)
          ELSE IF i + 2 >= Len(tokens) THEN Fail(cq, "Incomplete WHERE condition")
          ELSE whereLoop([cq EXCEPT !.conditions =
                            Append(@, [column |-> At(tokens, i), op |-> At(tokens, i + 1),
                                       value |-> parseValue(At(tokens, i + 2))])],
                         tokens, i + 3)

Mismatched_NoUpper(conditions, condition_operators) ==
  Len(condition_operators) + 1 < Len(conditions)

\* condition_operators.size() < expected_ops || > expected_ops + not_count,
\* with expected_ops = conditions.size() - 1 computed in size_t: for no
\* condition it is SIZE_MAX, which every size is below
Mismatched(conditions, condition_operators) ==
  LET not_count == Cardinality({ k \in 1..Len(condition_operators) :
                                   condition_operators[k] = "NOT" })
  IN IF Len(conditions) = 0 THEN TRUE
     ELSE \/ Len(condition_operators) < Len(conditions) - 1
          \/ Len(condition_operators) > Len(conditions) - 1 + not_count

\* the WHERE part of parseSelect, parseUpdate and parseDelete: the conditions
\* of the descriptor are cleared only when the statement has a WHERE
parseWhere(cq, tokens) ==
  LET where_pos == Find(tokens, "WHERE")
  IN IF ~(where_pos < Len(tokens)) THEN Parsed(cq, TRUE)
     ELSE LET r == whereLoop([cq EXCEPT !.conditions = << >>,
                                        !.condition_operators = << >>],
                             tokens, where_pos + 1)
          IN IF ~r.ok THEN r
             ELSE IF Mismatched(r.cq.conditions, r.cq.condition_operators)
             THEN Fail(r.cq, "Mismatched operators")
             ELSE r

\* a column of SELECT names a column of the schema, qualified or not
ColumnIn(col, schema, table_name) ==
  \E k \in 1..Len(schema.columns) :
    \/ schema.columns[k].name = col
    \/ (table_name \o ".") \o schema.columns[k].name = col

\* the JOIN part of parseSelect: join_table_name is assigned only when the
\* statement has a JOIN
parseJoin(cq, tokens) ==
  LET join_pos == Find(tokens, "JOIN")
      on_pos == Find(tokens, "ON")
  IN IF ~(join_pos < Len(tokens)) THEN Parsed(cq, TRUE)
     ELSE IF join_pos + 1 >= Len(tokens) THEN Fail(cq, "Missing join table name")
     ELSE
       LET cq1 == [cq EXCEPT !.join_table_name = At(tokens, join_pos + 1)]
       IN IF on_pos = Len(tokens) THEN Fail(cq1, "Missing ON clause")
          ELSE IF on_pos + 3 >= Len(tokens) \/ At(tokens, on_pos + 2) # "="
          THEN Fail(cq1, "Invalid ON condition")
          ELSE IF ~HasDot(At(tokens, on_pos + 1)) \/ ~HasDot(At(tokens, on_pos + 3))
          THEN Fail(cq1, "ON condition must specify table.column")
          ELSE Parsed([cq1 EXCEPT !.join_condition =
                         [column |-> At(tokens, on_pos + 1), op |-> "=",
                          value |-> At(tokens, on_pos + 3)]], TRUE)

parseSelect(cq, db, tokens) ==
  IF Len(tokens) < 4 THEN Fail(cq, "Invalid SELECT syntax")
  ELSE
    LET cq1 == [cq EXCEPT !.type = "SELECT"]
        from_pos == Find(tokens, "FROM")
        named == SelectSeq(SubSeq(tokens, 2, from_pos), LAMBDA col : col # ",")
        columns == IF named = << >> THEN << "*" >> ELSE named
    IN IF from_pos = Len(tokens) THEN Fail(cq1, "Missing FROM clause")
       ELSE IF from_pos + 1 >= Len(tokens) THEN Fail(cq1, "Missing table name after FROM")
       ELSE
         LET cq2 == [cq1 EXCEPT !.table_name = At(tokens, from_pos + 1)]
             j == parseJoin(cq2, tokens)
             schema1 == getTableSchema(db, j.cq.table_name)
             schema2 == getTableSchema(db, j.cq.join_table_name)
             known(col) ==
               \/ ColumnIn(col, schema1, j.cq.table_name)
               \/ j.cq.join_table_name # "" /\ ColumnIn(col, schema2, j.cq.join_table_name)
         IN IF ~j.ok THEN j
            ELSE IF schema1.name = "" THEN Fail(j.cq, "Table does not exist")
            ELSE IF j.cq.join_table_name # "" /\ schema2.name = ""
            THEN Fail(j.cq, "Join table does not exist")
            ELSE IF columns[1] # "*" /\ \E k \in 1..Len(columns) : ~known(columns[k])
            THEN Fail(j.cq, "Column does not exist")
            ELSE parseWhere([j.cq EXCEPT !.select_columns = columns], tokens)

\* the SET loop of parseUpdate from position i on
RECURSIVE setLoop(_, _, _)
setLoop(tokens, i, values) ==
  IF ~(i < Len(tokens)) THEN values
  ELSE IF At(tokens, i) = "WHERE" THEN values
  ELSE IF i + 2 >= Len(tokens) \/ At(tokens, i + 1) # "=" THEN setLoop(tokens, i + 1, values)
  ELSE setLoop(tokens, i + 3, Put(values, At(tokens, i), parseValue(At(tokens, i + 2))))

parseUpdate(cq, tokens) ==
  IF Len(tokens) < 6 THEN Fail(cq, "Invalid UPDATE syntax")
  ELSE
    LET cq1 == [cq EXCEPT !.type = "UPDATE", !.table_name = At(tokens, 1)]
        set_pos == Find(tokens, "SET")
    IN IF set_pos = Len(tokens) THEN Fail(cq1, "Missing SET clause")
       ELSE parseWhere([cq1 EXCEPT !.values = setLoop(tokens, set_pos + 1, EmptyRecord)],
                       tokens)

parseDelete(cq, tokens) ==
  IF Len(tokens) < 3 THEN Fail(cq, "Invalid DELETE syntax")
  ELSE parseWhere([cq EXCEPT !.type = "DELETE_OP", !.table_name = At(tokens, 2)], tokens)

\* one statement of QueryParser::parse.  returned: parse has returned;
\* otherwise ok is the result of the statement's parse method.  db: the
\* manager as the statement leaves it; the parse methods call nothing but
\* getTableSchema on it, a const method
ParseStep_DropFiles(cq, db, ok, returned) ==
  [cq |-> cq, db |-> [db EXCEPT !.files = [q \in {} |-> << >>]], ok |-> ok, returned |-> returned]

ParseStep(cq, db, ok, returned) == [cq |-> cq, db |-> db, ok |-> ok, returned |-> returned]

parseCommand(cq, db, tokens) ==
  LET command == ToUpper(At(tokens, 0))
      object == ToUpper(At(tokens, 1))
      typed(t) == [cq EXCEPT !.type = t]
      stop(message) == ParseStep([cq EXCEPT !.error_message = message], db, FALSE, TRUE)
      from(p) == ParseStep(p.cq, db, p.ok, FALSE)
  IN CASE command = "CREATE" ->
            IF Len(tokens) < 2 THEN stop("Invalid CREATE syntax: missing object type")
            ELSE IF object = "DATABASE"
            THEN from(parseCreateDatabase(typed("CREATE_DATABASE"), tokens))
            ELSE IF object = "TABLE"
            THEN from(parseCreateTable(typed("CREATE_TABLE"), tokens))
            ELSE stop("Invalid CREATE syntax: unknown object")
       [] command = "DROP" ->
            IF Len(tokens) < 2 THEN stop("Invalid DROP syntax: missing object type")
            ELSE IF object = "DATABASE"
            THEN from(parseDropDatabase(typed("DROP_DATABASE"), tokens))
            ELSE IF object = "TABLE"
            THEN from(parseDropTable(typed("DROP_TABLE"), tokens))
            ELSE stop("Invalid DROP syntax: unknown object")
       [] command = "USE" -> from(parseUseDatabase(typed("USE_DATABASE"), tokens))
       [] command = "SHOW" ->
            IF Len(tokens) < 2 THEN stop("Invalid SHOW syntax: missing object type")
            ELSE IF object = "DATABASES" THEN ParseStep(typed("SHOW_DATABASES"), db, TRUE, FALSE)
            ELSE IF object = "TABLES" THEN ParseStep(typed("SHOW_TABLES"), db, TRUE, FALSE)
            ELSE stop("Invalid SHOW syntax: unknown object")
       [] command = "INSERT" -> from(parseInsert(typed("INSERT"), db, tokens))
       [] command = "SELECT" -> from(parseSelect(typed("SELECT"), db, tokens))
       [] command = "UPDATE" -> from(parseUpdate(typed("UPDATE"), tokens))
       [] command = "DELETE" -> from(parseDelete(typed("DELETE_OP"), tokens))
       [] OTHER -> stop("Unknown command")

\* the loop of QueryParser::parse over the statements from the n-th on
RECURSIVE parseFrom(_, _, _, _, _)
parseFrom(cq, db, commands, n, all_success) ==
  IF n > Len(commands) THEN ParseStep(cq, db, all_success, TRUE)
  ELSE IF commands[n] = << >> THEN parseFrom(cq, db, commands, n + 1, all_success)
  ELSE With(parseCommand(cq, db, commands[n]), LAMBDA step :
         IF step.returned THEN step
         ELSE parseFrom(step.cq, step.db, commands, n + 1, all_success /\ step.ok))

\* QueryParser::parse on the statements of a submission
parse(cq, db, commands) ==
  parseFrom([cq EXCEPT !.error_message = ""], db, commands, 1, TRUE)

(***************************************************************************)
(* DatabaseManager::createTable, and the operations of the manager that    *)
(* execute() calls.                                                        *)
(***************************************************************************)
stringToColumnType(type_str) ==
  CASE type_str = "int" -> "INT"
    [] type_str = "float" -> "FLOAT"
    [] type_str = "string" -> "STRING"
    [] type_str = "char" -> "CHAR"
    [] type_str = "bool" -> "BOOL"
    [] OTHER -> "STRING"

createTable_NoCheck(db, table_name, columns, primary_key, foreign_keys) ==
  LET table == [name |-> table_name,
                columns |-> [k \in 1..Len(columns) |->
                               Col(columns[k][1], stringToColumnType(columns[k][2]),
                                   columns[k][3], columns[k][1] = primary_key)]]
  IN Outcome(createIndex([db EXCEPT !.catalog = Append(@, table)], table), TRUE, "none")

\* columns: (name, type, length) triples; foreign_keys: column -> (table, column)
createTable(db, table_name, columns, primary_key, foreign_keys) ==
  IF FindTable(db.catalog, table_name) # 0 THEN Outcome(db, FALSE, "none")
  ELSE
    LET column(c) ==
          LET is_foreign_key == c[1] \in DOMAIN foreign_keys
          IN [Col(c[1], stringToColumnType(c[2]), c[3], c[1] = primary_key)
                EXCEPT !.is_foreign_key = is_foreign_key,
                       !.references_table = IF is_foreign_key THEN foreign_keys[c[1]][1] ELSE "",
                       !.references_column = IF is_foreign_key THEN foreign_keys[c[1]][2] ELSE ""]
        table == [name |-> table_name,
                  columns |-> [k \in 1..Len(columns) |-> column(columns[k])]]
    IN Outcome(createIndex([db EXCEPT !.catalog = Append(@, table)], table), TRUE, "none")

listTables(db) == [k \in 1..Len(db.catalog) |-> db.catalog[k].name]

\* the names of the database directories, in some order
RECURSIVE listDatabases(_)
listDatabases(db) ==
  IF db.databases = {} THEN << >>
  ELSE LET x == CHOOSE y \in db.databases : TRUE
       IN << x >> \o listDatabases([db EXCEPT !.databases = @ \ {x}])

createDatabase(db, db_name) ==
  IF db_name \in db.databases THEN Outcome(db, FALSE, "none")
  ELSE Outcome([db EXCEPT !.databases = @ \cup {db_name}], TRUE, "none")

useDatabase(db, db_name) ==
  IF db_name \notin db.databases THEN Outcome(db, FALSE, "none")
  ELSE Outcome([db EXCEPT !.current_database = db_name], TRUE, "none")

\* the directory and all it holds are removed; the tables in use are those
\* of the current database
dropDatabase(db, db_name) ==
  IF db_name \notin db.databases THEN Outcome(db, FALSE, "none")
  ELSE IF db_name = db.current_database
  THEN Outcome([db EXCEPT !.databases = @ \ {db_name}, !.current_database = "",
                          !.catalog = << >>, !.files = [q \in {} |-> << >>],
                          !.indexes = [q \in {} |-> EmptyTree]], TRUE, "none")
  ELSE Outcome([db EXCEPT !.databases = @ \ {db_name}], TRUE, "none")

dropTable(db, table_name) ==
  IF FindTable(db.catalog, table_name) = 0 THEN Outcome(db, FALSE, "none")
  ELSE Outcome([db EXCEPT
                  !.catalog = SelectSeq(@, LAMBDA t : t.name # table_name),
                  !.files = [q \in (DOMAIN @) \ {DataPath(table_name)} |-> @[q]],
                  !.indexes = [q \in (DOMAIN @) \ {table_name} |-> @[q]]],
               TRUE, "none")

\* one comparison of a condition list on a record
Holds(record, cond) ==
  cond.column \in DOMAIN record /\ compareValues(record[cond.column], cond.value, cond.op)

\* the conditions from the n-th on joined to the value acc, the connectives
\* from the j-th on: left to right, a NOT negating the comparison after it
RECURSIVE EvalFrom(_, _, _, _, _, _)
EvalFrom(record, conditions, operators, n, j, acc) ==
  IF n > Len(conditions) THEN acc
  ELSE LET connective == IF j <= Len(operators) THEN operators[j] ELSE "AND"
           j1 == IF connective \in {"AND", "OR"} THEN j + 1 ELSE j
           negated == j1 <= Len(operators) /\ operators[j1] = "NOT"
           j2 == IF negated THEN j1 + 1 ELSE j1
           rhs == Holds(record, conditions[n]) # negated
       IN EvalFrom(record, conditions, operators, n + 1, j2,
                   IF connective = "OR" THEN acc \/ rhs ELSE acc /\ rhs)

\* a record satisfies a condition list; every record satisfies the empty one
Satisfies(record, conditions, operators) ==
  IF conditions = << >> THEN TRUE
  ELSE LET negated == operators # << >> /\ operators[1] = "NOT"
       IN EvalFrom(record, conditions, operators, 2, IF negated THEN 2 ELSE 1,
                   Holds(record, conditions[1]) # negated)

searchRecordsWithFilter(db, table_name, conditions, operators) ==
  SelectSeq(getAllRecords(db, table_name), LAMBDA r : Satisfies(r, conditions, operators))

\* the index of a rewritten file: every record under its key at its offset
RebuiltIndex(scan, schema) ==
  [k \in 1..Len(scan) |-> [key |-> scan[k].record[PrimaryKeyColumn(schema)].v,
                            offset |-> scan[k].offset]]

\* the manager after the data file of a table is replaced by these records
Rewritten(db, schema, records) ==
  LET bytes == Concat([k \in 1..Len(records) |-> saveRecord(records[k], schema)])
  IN [db EXCEPT !.files = WriteFile(@, DataPath(schema.name), bytes),
                !.indexes = IF schema.name \in DOMAIN @ /\ PrimaryKeyColumn(schema) # ""
                            THEN [@ EXCEPT ![schema.name] =
                                    RebuiltIndex(ScanFrom(bytes, 0, schema), schema)]
                            ELSE @]

\* the new values restricted to the columns of the schema
SetOf(values, schema) ==
  [c \in { schema.columns[k].name : k \in 1..Len(schema.columns) } \cap DOMAIN values |->
     values[c]]

updateRecordsWithFilter(db, table_name, values, conditions, operators) ==
  LET schema == getTableSchema(db, table_name)
      all == getAllRecords(db, table_name)
      written == [k \in 1..Len(all) |->
                    IF Satisfies(all[k], conditions, operators)
                    THEN ApplySet(all[k], SetOf(values, schema)) ELSE all[k]]
  IN IF schema.name = "" THEN Outcome(db, FALSE, "none")
     ELSE IF ~\E k \in 1..Len(all) : Satisfies(all[k], conditions, operators)
     THEN Outcome(db, FALSE, "none")
     ELSE IF \E k \in 1..Len(all) : ~WellTyped(written[k], schema)
     THEN Outcome(db, FALSE, "none")
     ELSE Outcome(Rewritten(db, schema, written), TRUE, "none")

\* ok: the table exists; count: the records deleted
deleteRecordsWithFilter(db, table_name, conditions, operators) ==
  LET schema == getTableSchema(db, table_name)
      all == getAllRecords(db, table_name)
      kept == SelectSeq(all, LAMBDA r : ~Satisfies(r, conditions, operators))
  IN IF schema.name = "" THEN [db |-> db, count |-> 0 - 1]
     ELSE IF Len(kept) = Len(all) THEN [db |-> db, count |-> 0]
     ELSE [db |-> Rewritten(db, schema, kept), count |-> Len(all) - Len(kept)]

\* the record of a table with its keys qualified by the table name
Qualified(record, table_name) ==
  [q \in { (table_name \o ".") \o c : c \in DOMAIN record } |->
     LET c == CHOOSE d \in DOMAIN record : (table_name \o ".") \o d = q IN record[c]]

Merged(left, right) ==
  [q \in (DOMAIN left) \cup (DOMAIN right) |-> IF q \in DOMAIN left THEN left[q] ELSE right[q]]

\* the pairs of a nested loop, left record outer, in file order
JoinPairs(left, right) ==
  Concat([i \in 1..Len(left) |-> [j \in 1..Len(right) |-> Merged(left[i], right[j])]])

joinTables(db, left_table, right_table, join_condition, conditions, operators) ==
  LET left == getAllRecords(db, left_table)
      right == getAllRecords(db, right_table)
      pairs == JoinPairs([i \in 1..Len(left) |-> Qualified(left[i], left_table)],
                         [j \in 1..Len(right) |-> Qualified(right[j], right_table)])
  IN SelectSeq(pairs, LAMBDA m :
       /\ join_condition.column \in DOMAIN m
       /\ join_condition.value \in DOMAIN m
       /\ FieldEq(m[join_condition.column], m[join_condition.value])
       /\ Satisfies(m, conditions, operators))

(***************************************************************************)
(* QueryParser::execute.                                                   *)
(***************************************************************************)
\* the columns of a record a projection keeps
Projected(record, columns) ==
  LET direct == { col \in { columns[k] : k \in 1..Len(columns) } : col \in DOMAIN record }
      based == { col \in { columns[k] : k \in 1..Len(columns) } :
                   col \notin DOMAIN record /\ HasDot(col) /\ BaseOf[col] \in DOMAIN record }
  IN [col \in direct \cup based |-> IF col \in direct THEN record[col] ELSE record[BaseOf[col]]]

filterRecordsByColumns(records, columns) ==
  IF columns = << "*" >> THEN records
  ELSE SelectSeq([k \in 1..Len(records) |-> Projected(records[k], columns)],
                 LAMBDA r : DOMAIN r # {})

\* the state of execute() after a statement.  returned: execute returned
\* false at this statement; fault: the exception or crash that left it
ExecStep(cq, db, success, results, records_found, returned, fault) ==
  [cq |-> cq, db |-> db, success |-> success, results |-> results,
   records_found |-> records_found, returned |-> returned, fault |-> fault]

\* success &= ok; if (!success) error_message = message
Accumulate(cq, db, success, ok, message) ==
  ExecStep(IF success /\ ok THEN cq ELSE [cq EXCEPT !.error_message = message],
           db, success /\ ok, << >>, 0, FALSE, "none")

\* return false with this message
ReturnFalse(cq, db, message) ==
  ExecStep([cq EXCEPT !.error_message = message], db, FALSE, << >>, 0, TRUE, "none")

executeSelect(cq, db, success) ==
  LET cq1 == [cq EXCEPT !.type = "SELECT"]
      done(records, message) ==
        With(filterRecordsByColumns(records, cq1.select_columns),
             LAMBDA results :
               ExecStep(IF results = << >> /\ message # ""
                        THEN [cq1 EXCEPT !.error_message = message] ELSE cq1,
                        db, success, results, Len(results), FALSE, "none"))
  IN IF getTableSchema(db, cq1.table_name).name = ""
     THEN ReturnFalse(cq1, db, "Table does not exist")
     ELSE IF cq1.join_table_name # ""
     THEN IF getTableSchema(db, cq1.join_table_name).name = ""
          THEN ReturnFalse(cq1, db, "Join table does not exist")
          ELSE done(joinTables(db, cq1.table_name, cq1.join_table_name, cq1.join_condition,
                               cq1.conditions, cq1.condition_operators),
                    IF cq1.conditions # << >> THEN "No records match the JOIN conditions"
                    ELSE "")
     ELSE IF cq1.conditions = << >>
     THEN done(getAllRecords(db, cq1.table_name), "No records found in table")
     ELSE done(searchRecordsWithFilter(db, cq1.table_name, cq1.conditions,
                                       cq1.condition_operators),
               "No records match the WHERE conditions")

\* one statement of QueryParser::execute
executeCommand(cq, db, tokens, success) ==
  LET command == ToUpper(At(tokens, 0))
      object == ToUpper(At(tokens, 1))
      typed(t) == [cq EXCEPT !.type = t]
      skip == ExecStep(cq, db, success, << >>, 0, FALSE, "none")
      \* the statement is parsed again; when that fails execute returns false,
      \* otherwise the manager is called and its result joins success
      run(parsed, call(_), parse_message, message) ==
        With(parsed, LAMBDA p :
          IF ~p.ok THEN ReturnFalse(p.cq, db, parse_message)
          ELSE With(call(p.cq), LAMBDA out :
                 IF out.fault # "none"
                 THEN ExecStep(p.cq, out.db, FALSE, << >>, 0, TRUE, out.fault)
                 ELSE Accumulate(p.cq, out.db, success, out.ok, message)))
  IN CASE command = "CREATE" ->
            IF Len(tokens) < 2 THEN ReturnFalse(cq, db, "Invalid CREATE command syntax")
            ELSE IF object = "DATABASE"
            THEN run(parseCreateDatabase(typed("CREATE_DATABASE"), tokens),
                     LAMBDA q : createDatabase(db, q.database_name),
                     "Failed to parse CREATE DATABASE command", "Failed to create database")
            ELSE IF object = "TABLE"
            THEN run(parseCreateTable(typed("CREATE_TABLE"), tokens),
                     LAMBDA q : createTable(db, q.table_name, q.columns, q.primary_key,
                                            q.foreign_keys),
                     "Failed to parse CREATE TABLE command", "Failed to create table")
            ELSE skip
       [] command = "DROP" ->
            IF Len(tokens) < 2 THEN ReturnFalse(cq, db, "Invalid DROP command syntax")
            ELSE IF object = "DATABASE"
            THEN run(parseDropDatabase(typed("DROP_DATABASE"), tokens),
                     LAMBDA q : dropDatabase(db, q.database_name),
                     "Failed to parse DROP DATABASE command", "Failed to drop database")
            ELSE IF object = "TABLE"
            THEN run(parseDropTable(typed("DROP_TABLE"), tokens),
                     LAMBDA q : dropTable(db, q.table_name),
                     "Failed to parse DROP TABLE command", "Failed to drop table")
            ELSE skip
       [] command = "USE" ->
            run(parseUseDatabase(typed("USE_DATABASE"), tokens),
                LAMBDA q : useDatabase(db, q.database_name),
                "Failed to parse USE DATABASE command", "Failed to use database")
       [] command = "SHOW" ->
            IF Len(tokens) < 2 THEN ReturnFalse(cq, db, "Invalid SHOW command syntax")
            ELSE IF object = "DATABASES"
            THEN With(listDatabases(db), LAMBDA names :
                   ExecStep(typed("SHOW_DATABASES"), db, success,
                            [k \in 1..Len(names) |-> [database |-> StrVal(Chars[names[k]])]],
                            Len(names), FALSE, "none"))
            ELSE IF object = "TABLES"
            THEN With(listTables(db), LAMBDA names :
                   ExecStep(typed("SHOW_TABLES"), db, success,
                            [k \in 1..Len(names) |-> [table |-> StrVal(Chars[names[k]])]],
                            Len(names), FALSE, "none"))
            ELSE skip
       [] command = "INSERT" ->
            run(parseInsert(typed("INSERT"), db, tokens),
                LAMBDA q : insertRecord(db, q.table_name, q.values),
                "Failed to parse INSERT command", "Failed to insert record")
       [] command = "SELECT" -> executeSelect(cq, db, success)
       [] command = "UPDATE" ->
            run(parseUpdate(typed("UPDATE"), tokens),
                LAMBDA q : updateRecordsWithFilter(db, q.table_name, q.values, q.conditions,
                                                   q.condition_operators),
                "Failed to parse UPDATE command", "Failed to update records")
       [] command = "DELETE" ->
            With(parseDelete(typed("DELETE_OP"), tokens), LAMBDA p :
              IF ~p.ok THEN ReturnFalse(p.cq, db, "Failed to parse DELETE command")
              ELSE With(deleteRecordsWithFilter(db, p.cq.table_name, p.cq.conditions,
                                                p.cq.condition_operators),
                        LAMBDA d :
                          ExecStep(IF success /\ d.count >= 0 THEN p.cq
                                   ELSE [p.cq EXCEPT
                                           !.error_message = "Failed to delete records"],
                                   d.db, success /\ d.count >= 0, << >>, d.count,
                                   FALSE, "none")))
       [] OTHER -> skip

\* what execute() leaves: the descriptor, the manager, the value returned,
\* and the exception or crash that ended it instead
Executed(cq, db, ok, fault) == [cq |-> cq, db |-> db, ok |-> ok, fault |-> fault]

\* the loop of QueryParser::execute over the statements from the n-th on;
\* results and records_found are those of the last statement executed
RECURSIVE executeFrom(_, _, _, _, _, _, _)
executeFrom(cq, db, commands, n, success, results, records_found) ==
  IF n > Len(commands)
  THEN Executed([cq EXCEPT !.results = results, !.records_found = records_found],
                db, success, "none")
  ELSE IF commands[n] = << >>
  THEN executeFrom(cq, db, commands, n + 1, success, results, records_found)
  ELSE With(executeCommand(cq, db, commands[n], success), LAMBDA step :
         IF step.fault # "none" THEN Executed(step.cq, step.db, FALSE, step.fault)
         ELSE IF step.returned THEN Executed(step.cq, step.db, FALSE, "none")
         ELSE executeFrom(step.cq, step.db, commands, n + 1, step.success,
                          step.results, step.records_found))

\* QueryParser::execute on the statements parse() stored
execute(cq, db, commands) == executeFrom(cq, db, commands, 1, TRUE, << >>, 0)

(***************************************************************************)
(* The record store as a state machine: one table T of every column type,  *)
(* and the calls insertRecord, updateRecord and deleteRecord on it.        *)
(***************************************************************************)
VARIABLES
  catalog,      \* DatabaseManager::catalog.tables
  files,        \* the files of the data directory, path -> bytes
  indexes,      \* DatabaseManager::indexes, table name -> index content
  last,         \* the last call: which one, its result, the fault that ended it
  insLog,       \* keys of the successful inserts while no update or delete was called
  databases,    \* the database directories
  current_database,  \* the database in use, "" when none
  current_query,     \* QueryParser::current_query
  commands,     \* QueryParser::commands, each statement as its tokens
  lifecycle     \* the state of the query lifecycle

parserVars == << databases, current_database, current_query, commands, lifecycle >>

\* the manager as the operators see it
Db == [catalog |-> catalog, files |-> files, indexes |-> indexes]

\* length of the STRING column of table T
NameLen == 2
\* length of the CHAR column of table T
GradeLen == 1

\* CREATE TABLE T (id INT, name STRING(2), grade CHAR(1), score FLOAT, ok BOOL, PRIMARY KEY (id))
SchemaT ==
  [name |-> "T",
   columns |-> << Col("id", "INT", 0, TRUE), Col("name", "STRING", NameLen, FALSE),
                  Col("grade", "CHAR", GradeLen, FALSE), Col("score", "FLOAT", 0, FALSE),
                  Col("ok", "BOOL", 0, FALSE) >>]

Keys == 1..MaxKey

\* the strings 'ab', 'a' and 'x' as character codes
StrAB == << 97, 98 >>
StrA == << 97 >>
StrX == << 120 >>

\* a record with every column at its full length
FullRecord(k) ==
  [id |-> IntVal(k), name |-> StrVal(StrAB), grade |-> StrVal(StrX),
   score |-> FloatVal(3), ok |-> BoolVal(TRUE)]

\* a record whose strings are shorter than their columns
ShortRecord(k) ==
  [id |-> IntVal(k), name |-> StrVal(StrA), grade |-> StrVal(<< >>),
   score |-> FloatVal(1), ok |-> BoolVal(FALSE)]

\* the records handed to insertRecord: one per key with full-length strings,
\* one with short strings, and one without the primary key
InsertInputs ==
  { FullRecord(k) : k \in Keys } \cup { ShortRecord(1) }
  \cup { [name |-> StrVal(StrAB)] }

\* the (key_column, key_value) criteria of update and delete
Criteria ==
  { << "id", IntVal(k) >> : k \in Keys } \cup { << "name", StrVal(Resize(StrA, NameLen)) >> }

\* the new values of an update: a new key (present in the table or not), or
\* every other column, strings shorter than their columns
SetMaps ==
  { [id |-> IntVal(k)] : k \in {1, MaxKey + 1} }
  \cup { [name |-> StrVal(StrA), grade |-> StrVal(<< >>),
          score |-> FloatVal(1), ok |-> BoolVal(FALSE)] }

Call(op, ok, f) == [op |-> op, ok |-> ok, fault |-> f]

StoreInit ==
  /\ catalog = << SchemaT >>
  /\ files = [q \in {} |-> << >>]
  /\ indexes = ("T" :> EmptyTree)
  /\ last = Call("none", TRUE, "none")
  /\ insLog = [open |-> TRUE, keys |-> << >>]
  /\ databases = {}
  /\ current_database = ""
  /\ current_query = EmptyQuery
  /\ commands = << >>
  /\ lifecycle = "Idle"

\* the process ended, or its behaviour is undefined from here on: no further
\* call is followed
Dead == last.fault \in {"vector_out_of_range", "null_index", "undefined_value"}

DataOf(fs) == IF DataPath("T") \in DOMAIN fs THEN fs[DataPath("T")] ELSE << >>

NumRecords == Len(DataOf(files)) \div RecordSize(SchemaT)

StepTo(out, op) ==
  /\ catalog' = out.db.catalog
  /\ files' = out.db.files
  /\ indexes' = out.db.indexes
  /\ last' = Call(op, out.ok, out.fault)
  /\ UNCHANGED parserVars

InsertOf(record) ==
  /\ ~Dead
  /\ NumRecords < MaxRecs
  /\ LET out == insertRecord(Db, "T", record)
     IN /\ StepTo(out, "insert")
        /\ insLog' = IF out.ok /\ insLog.open
                     THEN [insLog EXCEPT !.keys = Append(@, record.id.v)] ELSE insLog

UpdateOf(key_column, key_value, new_values) ==
  /\ ~Dead
  /\ \E out \in updateRecord(Db, "T", key_column, key_value, new_values) :
       StepTo(out, "update")
  /\ insLog' = [open |-> FALSE, keys |-> << >>]

DeleteOf(key_column, key_value) ==
  /\ ~Dead
  /\ StepTo(deleteRecord(Db, "T", key_column, key_value), "delete")
  /\ insLog' = [open |-> FALSE, keys |-> << >>]

Insert == \E record \in InsertInputs : InsertOf(record)

Update == \E crit \in Criteria, new_values \in SetMaps : UpdateOf(crit[1], crit[2], new_values)

Delete == \E crit \in Criteria : DeleteOf(crit[1], crit[2])

vars == << catalog, files, indexes, last, insLog,
           databases, current_database, current_query, commands, lifecycle >>

Init == StoreInit

Next == Insert \/ Update \/ Delete

Spec == Init /\ [][Next]_vars

(***************************************************************************)
(* Properties of the record store.                                         *)
(***************************************************************************)
DbNext == [catalog |-> catalog', files |-> files', indexes |-> indexes']

KeyOf(record) == record["id"].v

Count(seq, x) == Cardinality({ i \in 1..Len(seq) : seq[i] = x })

\* two sequences hold the same elements the same number of times
SameBag(a, b) ==
  /\ Len(a) = Len(b)
  /\ \A i \in 1..Len(a) : Count(a, a[i]) = Count(b, a[i])

PointQuery(k) == << Cond("id", IntVal(k), "=") >>

\* C1: every (key, offset) the index of T holds points at a record of the
\* data file whose primary key is that key.
IndexConsistency ==
  \A i \in 1..Len(indexes["T"]) :
    LET e == indexes["T"][i]
    IN /\ e.offset + RecordSize(SchemaT) <= Len(DataOf(files))
       /\ KeyOf(loadRecord(DataOf(files), e.offset, SchemaT).record) = e.key

\* C2: for every key k, the index fast path and the full scan return the
\* same records, the same number of times, for the condition id = k.
ScanIndexAgreement ==
  DataPath("T") \in DOMAIN files =>
    \A k \in 0..(MaxKey + 1) :
      SameBag(IndexSearch(Db, "T", SchemaT, PointQuery(k)),
              ScanSearch(Db, "T", SchemaT, PointQuery(k)))

\* the step is a returned call of this kind
Returned(op, ok) == last'.op = op /\ last'.ok = ok /\ last'.fault \in {"none", "undefined_value"}

\* C3: a point query on the key of a record just inserted returns exactly
\* that record, every field equal to the inserted value.
RoundTrip ==
  [][Returned("insert", TRUE) =>
       \A record \in InsertInputs :
         InsertOf(record) =>
           searchRecordsAdvanced(DbNext, "T", PointQuery(KeyOf(record))) = << record >>]_vars

\* C4: while only inserts were called, the full scan returns one record per
\* successful insert, in insertion order, with the inserted primary keys.
InsertOrder ==
  insLog.open =>
    LET all == getAllRecords(Db, "T")
    IN [i \in 1..Len(all) |-> KeyOf(all[i])] = insLog.keys

InsertOrderWitness ==
  /\ insLog.open
  /\ Len(insLog.keys) = 2
  /\ insLog.keys[1] # insLog.keys[2]
  /\ Len(getAllRecords(Db, "T")) = 2

\* the records of a scan that do not match a criterion
Survivors(all, crit) == SelectSeq(all, LAMBDA r : ~Matches(r, crit[1], crit[2]))

UpdateExact ==
  [][Returned("update", TRUE) =>
       \A crit \in Criteria, new_values \in SetMaps :
         UpdateOf(crit[1], crit[2], new_values) =>
           LET old == getAllRecords(Db, "T")
               new == getAllRecords(DbNext, "T")
           IN /\ Len(new) = Len(old)
              /\ \A i \in 1..Len(old) :
                   IF Matches(old[i], crit[1], crit[2])
                   THEN \A c \in DOMAIN old[i] :
                          new[i][c] = IF c \in DOMAIN new_values THEN new_values[c]
                                      ELSE old[i][c]
                   ELSE new[i] = old[i]]_vars

\* C7: after a successful update or delete the data file holds exactly
\* (surviving records) x (record size) bytes, and the size of the data file
\* is always a multiple of the record size.
RewriteSize ==
  /\ [](Len(DataOf(files)) % RecordSize(SchemaT) = 0)
  /\ [][Returned("delete", TRUE) =>
          \A crit \in Criteria :
            DeleteOf(crit[1], crit[2]) =>
              Len(DataOf(files')) =
                Len(Survivors(getAllRecords(Db, "T"), crit)) * RecordSize(SchemaT)]_vars
  /\ [][Returned("update", TRUE) =>
          Len(DataOf(files')) = Len(getAllRecords(Db, "T")) * RecordSize(SchemaT)]_vars

RewriteSizeWitness ==
  /\ last.op \in {"update", "delete"}
  /\ last.ok
  /\ Len(DataOf(files)) = RecordSize(SchemaT)

NoMatch(crit) == Survivors(getAllRecords(Db, "T"), crit) = getAllRecords(Db, "T")

\* the call returned false and left the data file and the index as they
\* were, and no temp file
Untouched(out) ==
  /\ out.ok = FALSE
  /\ out.fault = "none"
  /\ DOMAIN out.db.files = (DOMAIN files) \ {TempPath("T")}
  /\ DataOf(out.db.files) = DataOf(files)
  /\ out.db.indexes = indexes

\* C8: an update or delete whose criterion matches no record reports failure
\* and leaves the data file and the index as they were, and no temp file.
NoMatchNoOp ==
  \A crit \in Criteria :
    NoMatch(crit) =>
      /\ Untouched(deleteRecord(Db, "T", crit[1], crit[2]))
      /\ \A new_values \in SetMaps :
           \A out \in updateRecord(Db, "T", crit[1], crit[2], new_values) : Untouched(out)

NoMatchNoOpWitness ==
  /\ last.op = "update"
  /\ ~last.ok
  /\ last.fault = "none"
  /\ Len(getAllRecords(Db, "T")) >= 1

\* C22: insertRecord of a record that lacks the primary key column of T
\* returns false and leaves the data file and the index as they were
MissingKeyRejected ==
  [][last'.op = "insert" =>
       \A record \in InsertInputs :
         (PrimaryKeyColumn(SchemaT) \notin DOMAIN record /\ InsertOf(record))
            => /\ ~last'.ok
               /\ last'.fault = "none"
               /\ files' = files
               /\ indexes' = indexes]_vars

\* a record without primary key was refused by a table that holds a record
MissingKeyRejectedWitness ==
  /\ last.op = "insert"
  /\ ~last.ok
  /\ last.fault = "none"
  /\ Len(getAllRecords(Db, "T")) >= 1
  /\ Len(indexes["T"]) >= 1

\* C28: no two records of the data file of T hold the same primary key
UniqueKeys ==
  LET all == getAllRecords(Db, "T")
  IN \A i \in 1..Len(all) : \A j \in 1..Len(all) :
       i # j => KeyOf(all[i]) # KeyOf(all[j])

\* C30: a successful update whose new values do not hold the primary key
\* leaves the index as it was, the data file at its size, and at every offset
\* a record with the key of the record that was there
KeepsOffsets ==
  [][Returned("update", TRUE) =>
       \A crit \in Criteria, new_values \in SetMaps :
         (PrimaryKeyColumn(SchemaT) \notin DOMAIN new_values
          /\ UpdateOf(crit[1], crit[2], new_values))
            => LET old == ScanFrom(DataOf(files), 0, SchemaT)
                   new == ScanFrom(DataOf(files'), 0, SchemaT)
               IN /\ indexes' = indexes
                  /\ Len(DataOf(files')) = Len(DataOf(files))
                  /\ Len(new) = Len(old)
                  /\ \A i \in 1..Len(old) :
                       /\ new[i].offset = old[i].offset
                       /\ KeyOf(new[i].record) = KeyOf(old[i].record)]_vars

\* an update of the columns other than the key was applied to the record
\* with key 2, in a table of two records
KeepsOffsetsWitness ==
  /\ last.op = "update"
  /\ last.ok
  /\ last.fault = "none"
  /\ LET all == getAllRecords(Db, "T")
     IN /\ Len(all) = 2
        /\ \E i \in 1..2 : KeyOf(all[i]) = 2 /\ all[i]["score"] = FloatVal(1)
  /\ Len(indexes["T"]) = 2

\* C24: for every condition list of at most one comparison and every further
\* comparison, each record searchRecordsAdvanced returns for the longer list
\* is returned at least as many times for the shorter one
WhereMonotone ==
  LET comparisons ==
        { Cond("id", IntVal(k), "=") : k \in 0..(MaxKey + 1) }
        \cup { Cond("id", IntVal(1), ">"), Cond("name", StrVal(StrAB), "="),
               Cond("ok", BoolVal(TRUE), "=") }
      lists == { << >> } \cup { << c >> : c \in comparisons }
  IN \A cs \in lists, c \in comparisons :
       LET more == searchRecordsAdvanced(Db, "T", Append(cs, c))
           less == searchRecordsAdvanced(Db, "T", cs)
       IN \A i \in 1..Len(more) : Count(more, more[i]) <= Count(less, more[i])

(***************************************************************************)
(* The query lifecycle as a state machine: a submission is parsed, and     *)
(* executed when the parse accepted it.  The parser and the manager live   *)
(* across submissions.                                                     *)
(***************************************************************************)
\* the manager as the parser sees it
Mgr ==
  [catalog |-> catalog, files |-> files, indexes |-> indexes,
   databases |-> databases, current_database |-> current_database]

MgrNext ==
  [catalog |-> catalog', files |-> files', indexes |-> indexes',
   databases |-> databases', current_database |-> current_database']

\* a manager with no database and no table
Fresh ==
  [catalog |-> << >>, files |-> [q \in {} |-> << >>], indexes |-> [q \in {} |-> EmptyTree],
   databases |-> {}, current_database |-> ""]

\* table a after insertRecord of (id k, v k) for the keys up to k
RECURSIVE Loaded(_, _)
Loaded(db, k) ==
  IF k = 0 THEN db
  ELSE insertRecord(Loaded(db, k - 1), "a", [id |-> IntVal(k), v |-> IntVal(k)]).db

\* a manager whose tables a (id int primary key, v int) and b (id int primary
\* key) were made by createTable; a holds a record per key, b the key 1
Preloaded ==
  LET with_a == createTable(Fresh, "a", << << "id", "int", 0 >>, << "v", "int", 0 >> >>,
                            "id", EmptyRecord).db
      with_b == createTable(with_a, "b", << << "id", "int", 0 >> >>, "id", EmptyRecord).db
  IN insertRecord(Loaded(with_b, MaxKey), "b", [id |-> IntVal(1)]).db

\* statements, as the tokens tokenize() returns for them
Stmt ==
  [create_db |-> << "CREATE", "DATABASE", "db" >>,
   use_db |-> << "USE", "db" >>,
   create_t |-> << "CREATE", "TABLE", "t", "(", "id", "INT", ",",
                   "PRIMARY", "KEY", "(", "id", ")", ")" >>,
   insert_1 |-> << "INSERT", "INTO", "t", "VALUES", "(", "1", ")" >>,
   insert_2 |-> << "INSERT", "INTO", "t", "VALUES", "(", "2", ")" >>,
   select_t |-> << "SELECT", "*", "FROM", "t" >>,
   drop_t |-> << "DROP", "TABLE", "t" >>,
   show_tables |-> << "SHOW", "TABLES" >>,
   select_a |-> << "SELECT", "*", "FROM", "a" >>,
   select_where |-> << "SELECT", "*", "FROM", "a", "WHERE", "id", "=", "1" >>,
   select_join |-> << "SELECT", "*", "FROM", "a", "JOIN", "b", "ON", "a.id", "=", "b.id" >>,
   update_a |-> << "UPDATE", "a", "SET", "v", "=", "5" >>,
   delete_a |-> << "DELETE", "FROM", "a" >>,
   delete_where |-> << "DELETE", "FROM", "a", "WHERE", "id", "=", "2" >>,
   delete_b |-> << "DELETE", "FROM", "b", "WHERE", "id", "=", "2" >>,
   select_lower |-> << "select", "*", "from", "a" >>,
   create_fk |-> << "CREATE", "TABLE", "c", "(", "id", "INT", ",",
                    "PRIMARY", "KEY", "(", "id", ")", ",",
                    "FOREIGN", "KEY", "(", "id", ")", "REFERENCES", "zz", "(", "id", ")", ")" >>,
   delete_nospace |-> tokenize(<< "D", "E", "L", "E", "T", "E", " ", "F", "R", "O", "M", " ",
                              "a", " ", "W", "H", "E", "R", "E", " ", "i", "d", "=", "5" >>),
   delete_spaced |-> tokenize(<< "D", "E", "L", "E", "T", "E", " ", "F", "R", "O", "M", " ",
                             "a", " ", "W", "H", "E", "R", "E", " ", "i", "d", " ", "=",
                             " ", "5" >>),
   insert_n |-> << "INSERT", "INTO", "n", "VALUES", "(", "1", ",", "true", ",", "'ab'", ")" >>,
   insert_word |-> << "INSERT", "INTO", "n", "VALUES", "(", "a", ",", "true", ",", "'ab'", ")" >>,
   insert_maybe |-> << "INSERT", "INTO", "n", "VALUES", "(", "1", ",", "maybe", ",", "'ab'", ")" >>,
   insert_number |-> << "INSERT", "INTO", "n", "VALUES", "(", "1", ",", "true", ",", "5", ")" >>,
   create_m |-> << "CREATE", "TABLE", "m", "(", "v", "INT", ")" >>,
   insert_m |-> << "INSERT", "INTO", "m", "VALUES", "(", "1", ")" >>,
   value_float |-> << "SELECT", "*", "FROM", "a", "WHERE", "v", "=", "1.5" >>,
   value_bool |-> << "SELECT", "*", "FROM", "a", "WHERE", "v", "=", "TRUE" >>,
   value_mixed |-> << "SELECT", "*", "FROM", "a", "WHERE", "v", "=", "True" >>,
   value_quoted |-> << "SELECT", "*", "FROM", "a", "WHERE", "v", "=", "'ab'" >>,
   where_none |-> << "SELECT", "*", "FROM", "a", "WHERE" >>,
   where_not |-> << "SELECT", "*", "FROM", "a", "WHERE", "NOT" >>,
   where_two |-> << "SELECT", "*", "FROM", "a", "WHERE", "id", "=", "1", "v", "=", "1" >>,
   where_and |-> << "SELECT", "*", "FROM", "a", "WHERE", "id", "=", "1", "AND", "v", "=", "1" >>,
   where_and_and |-> << "SELECT", "*", "FROM", "a", "WHERE", "id", "=", "1", "AND", "AND", "v", "=", "1" >>,
   where_and_not |-> << "SELECT", "*", "FROM", "a", "WHERE", "id", "=", "1", "AND", "NOT", "v", "=", "5" >>,
   where_not_one |-> << "SELECT", "*", "FROM", "a", "WHERE", "NOT", "id", "=", "1" >>,
   where_trailing |-> << "SELECT", "*", "FROM", "a", "WHERE", "id", "=", "1", "AND" >>,
   delete_two |-> << "DELETE", "FROM", "a", "WHERE", "id", "=", "5", "v", "=", "5" >>]

\* scenario S1
S1 ==
  << Stmt.create_db, Stmt.use_db, Stmt.create_t, Stmt.insert_1, Stmt.insert_2, Stmt.select_t >>

\* the submissions a client sends
Submissions ==
  { S1, << Stmt.create_t >>, << Stmt.drop_t >>, << Stmt.show_tables >>,
    << Stmt.select_a >>, << Stmt.select_where >>, << Stmt.select_join >>,
    << Stmt.update_a >>, << Stmt.delete_a >>, << Stmt.delete_where >>,
    << Stmt.delete_b, Stmt.select_a >>, << Stmt.create_t, Stmt.delete_a >>,
    << Stmt.select_t, Stmt.select_where >>, << Stmt.select_lower >>,
    << Stmt.create_fk >> }

InitQ ==
  /\ \E db \in {Fresh, Preloaded} :
       /\ catalog = db.catalog
       /\ files = db.files
       /\ indexes = db.indexes
       /\ databases = db.databases
       /\ current_database = db.current_database
  /\ current_query = EmptyQuery
  /\ commands = << >>
  /\ lifecycle = "Idle"
  /\ last = Call("none", TRUE, "none")
  /\ insLog = [open |-> FALSE, keys |-> << >>]

\* Idle -> Parsed, or back to Idle with the diagnostic when parse() returns
\* false; an executed submission leaves the parser ready for the next
Parse ==
  /\ ~Dead
  /\ lifecycle \in {"Idle", "Executed"}
  /\ \E q \in Submissions :
       \E p \in { parse(current_query, Mgr, q) } :
          /\ commands' = q
          /\ current_query' = p.cq
          /\ catalog' = p.db.catalog
          /\ files' = p.db.files
          /\ indexes' = p.db.indexes
          /\ databases' = p.db.databases
          /\ current_database' = p.db.current_database
          /\ lifecycle' = IF p.ok THEN "Parsed" ELSE "Idle"
          /\ last' = Call("parse", p.ok, "none")
  /\ UNCHANGED insLog

\* Parsed -> Executed
Execute ==
  /\ ~Dead
  /\ lifecycle = "Parsed"
  /\ \E e \in { execute(current_query, Mgr, commands) } :
        /\ current_query' = e.cq
        /\ catalog' = e.db.catalog
        /\ files' = e.db.files
        /\ indexes' = e.db.indexes
        /\ databases' = e.db.databases
        /\ current_database' = e.db.current_database
        /\ last' = Call("execute", e.ok, e.fault)
  /\ lifecycle' = "Executed"
  /\ UNCHANGED << commands, insLog >>

NextQ == Parse \/ Execute

SpecQ == InitQ /\ [][NextQ]_vars

\* the manager of the literal and WHERE statements: the preloaded tables and
\* a table n (k int, ok bool, name string) made by createTable without a
\* primary key
InitP ==
  /\ \E db \in { createTable(Preloaded, "n",
                              << << "k", "int", 0 >>, << "ok", "bool", 0 >>,
                                 << "name", "string", 2 >> >>, "", EmptyRecord).db } :
       /\ catalog = db.catalog
       /\ files = db.files
       /\ indexes = db.indexes
       /\ databases = db.databases
       /\ current_database = db.current_database
  /\ current_query = EmptyQuery
  /\ commands = << >>
  /\ lifecycle = "Idle"
  /\ last = Call("none", TRUE, "none")
  /\ insLog = [open |-> FALSE, keys |-> << >>]

\* parse() of a submission of one statement: a text given to tokenize(), an
\* INSERT into n or m, a WHERE of each count of comparisons and connectives
ParseP ==
  /\ ~Dead
  /\ lifecycle \in {"Idle", "Executed"}
  /\ \E q \in { << Stmt[f] >> :
                  f \in {"delete_nospace", "delete_spaced", "insert_n", "insert_word",
                         "insert_maybe", "insert_number", "create_m", "insert_m",
                         "value_float", "value_bool", "value_mixed", "value_quoted",
                         "select_where", "where_none", "where_not", "where_two",
                         "where_and", "where_and_and", "where_and_not",
                         "where_not_one", "where_trailing", "delete_two"} } :
       \E p \in { parse(current_query, Mgr, q) } :
          /\ commands' = q
          /\ current_query' = p.cq
          /\ catalog' = p.db.catalog
          /\ files' = p.db.files
          /\ indexes' = p.db.indexes
          /\ databases' = p.db.databases
          /\ current_database' = p.db.current_database
          /\ lifecycle' = IF p.ok THEN "Parsed" ELSE "Idle"
          /\ last' = Call("parse", p.ok, "none")
  /\ UNCHANGED insLog

SpecP == InitP /\ [][ParseP \/ Execute]_vars

(***************************************************************************)
(* Properties of the query lifecycle.                                      *)
(***************************************************************************)
\* the step is parse() of the submission q
Submits(q) == last'.op = "parse" /\ commands' = q

\* the step is execute() of the parsed submission q, and it returned
Executes(q) == last'.op = "execute" /\ last'.fault = "none" /\ commands = q

\* the rows of scenario S1
RowsS1 == << [id |-> IntVal(1)], [id |-> IntVal(2)] >>

\* C9: scenario S1 submitted where neither the database db nor the table t
\* exists is accepted by parse(), and its execution returns true with the two
\* inserted rows in order as the results and records_found = 2
ScenarioS1 ==
  [][ /\ (Submits(S1) /\ "db" \notin databases /\ FindTable(catalog, "t") = 0)
         => last'.ok
      /\ (Executes(S1) /\ "db" \notin databases /\ FindTable(catalog, "t") = 0)
         => /\ last'.ok
            /\ current_query'.results = RowsS1
            /\ current_query'.records_found = Len(RowsS1) ]_vars

\* column v of every record of table a is 5
AllSet(db) ==
  \A k \in 1..Len(getAllRecords(db, "a")) : getAllRecords(db, "a")[k]["v"] = IntVal(5)

\* C10: a one-statement submission without WHERE and JOIN acts on every
\* record of its table, whatever was submitted before: SELECT * returns the
\* records of a full scan, UPDATE sets the column in every record, DELETE
\* leaves the table empty
NoStateLeak ==
  [][ /\ Executes(<< Stmt.select_a >>)
         => current_query'.results = getAllRecords(Mgr, "a")
      /\ (Executes(<< Stmt.update_a >>) /\ getAllRecords(Mgr, "a") # << >>)
         => AllSet(MgrNext)
      /\ Executes(<< Stmt.delete_a >>)
         => getAllRecords(MgrNext, "a") = << >> ]_vars

\* C11: the SELECT of the submission DELETE FROM b WHERE id = 2; SELECT * FROM a
\* sent to a parser that holds no join table of an earlier submission returns
\* the records of table a, all of them
OwnStatement ==
  [][ (Executes(<< Stmt.delete_b, Stmt.select_a >>) /\ current_query.join_table_name = "")
         => current_query'.results = getAllRecords(MgrNext, "a") ]_vars

\* C12: when CREATE TABLE t fails in execute() because t exists, the DELETE
\* after it in the submission is not executed: execute() returns false and
\* the catalog, the files and the indexes are as before
StopsAtFirstError ==
  [][ (Executes(<< Stmt.create_t, Stmt.delete_a >>) /\ FindTable(catalog, "t") # 0)
         => /\ ~last'.ok
            /\ << catalog', files', indexes' >> = << catalog, files, indexes >> ]_vars

\* C13: when the first statement of SELECT * FROM t; SELECT * FROM a WHERE id = 1
\* fails to parse because t does not exist, parse() returns false and leaves
\* the descriptor, error_message included, as parse() of the first statement
\* alone leaves it
ParseStopsAtFirstError ==
  [][ (Submits(<< Stmt.select_t, Stmt.select_where >>) /\ FindTable(catalog, "t") = 0)
         => /\ ~last'.ok
            /\ current_query' = parse(current_query, Mgr, << Stmt.select_t >>).cq ]_vars

\* C14: after execute() has returned, error_message is empty if and only if
\* execute() returned true
MessageIffFailure ==
  (last.op = "execute" /\ last.fault = "none")
     => (current_query.error_message = "" <=> last.ok)

\* C15: every call ends with a result value: none is left by an exception, a
\* crash or an access whose behaviour is undefined
NoFault == last.fault = "none"

\* C16: parse(), whether it returns true or false, leaves the catalog, the
\* files, the index handles and their content, and the databases as they were
ParseKeepsStorage ==
  [][ last'.op = "parse" => MgrNext = Mgr ]_vars

\* parse() returned false on a manager that holds tables and data files
ParseKeepsStorageWitness ==
  /\ last.op = "parse"
  /\ ~last.ok
  /\ current_query.error_message # ""
  /\ catalog # << >>
  /\ DOMAIN files # {}

\* C17: after CREATE TABLE t (id INT, PRIMARY KEY(id)) was executed with
\* success, column id of the catalog entry of t has type INT, and
\* insertRecord of a record with the integer key 1 into t is accepted
TypesRecorded ==
  [][ (Executes(<< Stmt.create_t >>) /\ last'.ok)
         => /\ getTableSchema(MgrNext, "t").columns[1].type = "INT"
            /\ insertRecord(MgrNext, "t", [id |-> IntVal(1)]).ok ]_vars

\* C18: select * from a, the statement SELECT * FROM a with its keywords in
\* lower case, parses as SELECT * FROM a does: with the same result and the
\* same descriptor
KeywordCase ==
  [][ Submits(<< Stmt.select_lower >>)
         => /\ last'.ok = parse(current_query, Mgr, << Stmt.select_a >>).ok
            /\ current_query' = parse(current_query, Mgr, << Stmt.select_a >>).cq ]_vars

\* C19: in every table of the catalog the column flagged is_primary_key has
\* type INT
PrimaryKeyIsInt ==
  \A k \in 1..Len(catalog) :
    \A j \in 1..Len(catalog[k].columns) :
      catalog[k].columns[j].is_primary_key => catalog[k].columns[j].type = "INT"

\* C20: CREATE TABLE c with FOREIGN KEY (id) REFERENCES zz (id), executed
\* where no table zz exists, fails and leaves the catalog, the files and the
\* indexes as they were
ForeignKeyValidated ==
  [][ (Executes(<< Stmt.create_fk >>) /\ FindTable(catalog, "zz") = 0)
         => /\ ~last'.ok
            /\ << catalog', files', indexes' >> = << catalog, files, indexes >> ]_vars

\* C21: CREATE TABLE t executed where the catalog holds a table t fails and
\* leaves the catalog, the files and the index handles as they were; the
\* names of the tables of the catalog are pairwise distinct
DuplicateTableRejected ==
  [][ /\ (Executes(<< Stmt.create_t >>) /\ FindTable(catalog, "t") # 0)
         => (~last'.ok /\ MgrNext = Mgr)
      /\ \A i \in 1..Len(catalog') : \A j \in 1..Len(catalog') :
           i # j => catalog'[i].name # catalog'[j].name ]_vars

\* CREATE TABLE t was refused by a manager that holds t and other tables
DuplicateTableRejectedWitness ==
  /\ last.op = "execute"
  /\ ~last.ok
  /\ commands = << Stmt.create_t >>
  /\ current_query.error_message = "Failed to create table"
  /\ FindTable(catalog, "t") # 0
  /\ Len(catalog) >= 2

\* C27: the spaces around an operator do not matter: DELETE FROM a WHERE id=5
\* is accepted by parse() and leaves the descriptor that
\* DELETE FROM a WHERE id = 5 leaves
SpacingIrrelevant ==
  [][ Submits(<< Stmt.delete_nospace >>)
        => /\ last'.ok
           /\ current_query' = parse(current_query, Mgr, << Stmt.delete_spaced >>).cq ]_vars

\* C25: a literal of WHERE is an Int exactly when the whole of it is an
\* integer, else a Float when it is a decimal, else a Bool for true or false
\* in any letter case, else a Str; a quoted literal is a Str without its quotes
LiteralTyping ==
  [][ LET expected ==
            (Stmt.select_where :> IntVal(1)) @@ (Stmt.value_float :> FloatVal(3))
            @@ (Stmt.value_bool :> BoolVal(TRUE)) @@ (Stmt.value_mixed :> BoolVal(TRUE))
            @@ (Stmt.value_quoted :> StrVal(<< 97, 98 >>))
      IN \A stmt \in DOMAIN expected :
           Submits(<< stmt >>)
             => /\ last'.ok
                /\ Len(current_query'.conditions) = 1
                /\ current_query'.conditions[1].column = At(stmt, 5)
                /\ current_query'.conditions[1].op = "="
                /\ current_query'.conditions[1].value.tag = expected[stmt].tag
                /\ current_query'.conditions[1].value.v = expected[stmt].v ]_vars

\* C23: INSERT binds the values to the columns of n in order, and rejects a
\* literal that is not a number for the INT column, a word other than true
\* or false for the BOOL column and a number without quotes for the STRING
\* column
InsertTypeChecked ==
  [][ /\ Submits(<< Stmt.insert_n >>)
          => /\ last'.ok
             /\ current_query'.values = [k |-> IntVal(1), ok |-> BoolVal(TRUE),
                                         name |-> StrVal(<< 97, 98 >>)]
      /\ \A stmt \in {Stmt.insert_word, Stmt.insert_maybe, Stmt.insert_number} :
           Submits(<< stmt >>) => ~last'.ok ]_vars

\* C29: no insertRecord reaches indexes[table_name]->insert without an index
\* handle for the table
IndexHandleExists == last.fault # "null_index"

\* C26: a SELECT or DELETE whose WHERE holds c comparisons and k connectives,
\* n of them NOT, is accepted by parse() when c - 1 <= k <= c - 1 + n and is
\* refused with the mismatched-operators message otherwise, a WHERE without
\* any comparison included
ConnectiveRule ==
  [][ (/\ last'.op = "parse"
       /\ Len(commands') = 1
       /\ commands'[1][1] \in {"SELECT", "DELETE"}
       /\ Find(commands'[1], "WHERE") < Len(commands'[1]))
        => LET tokens == commands'[1]
               after == SubSeq(tokens, Find(tokens, "WHERE") + 2, Len(tokens))
               k == Cardinality({ i \in 1..Len(after) : ToUpper(after[i]) \in {"AND", "OR", "NOT"} })
               n == Cardinality({ i \in 1..Len(after) : ToUpper(after[i]) = "NOT" })
               c == (Len(after) - k) \div 3
           IN (Len(after) - k) % 3 = 0
                => IF c - 1 <= k /\ k <= c - 1 + n
                   THEN last'.ok /\ Len(current_query'.conditions) = c
                        /\ Len(current_query'.condition_operators) = k
                   ELSE ~last'.ok /\ current_query'.error_message = "Mismatched operators" ]_vars

ConnectiveRuleWitness ==
  /\ last.op = "parse"
  /\ ~last.ok
  /\ commands = << Stmt.where_not >>
  /\ current_query.conditions = << >>
  /\ current_query.condition_operators = << "NOT" >>
  /\ current_query.error_message = "Mismatched operators"

====
